---- MODULE Spec2Model ----
(***************************************************************************)
(* Verification model of the automation agent:                             *)
(*   - the task registry, the scheduler thread, the resource-monitor       *)
(*     thread and the interactive prompt of src/main.py;                   *)
(*   - ProcessMonitor alerts (src/modules/process_monitor.py);             *)
(*   - SafetyManager.is_safe_command (src/modules/safety_manager.py);      *)
(*   - ConfigManager get/set (src/modules/config_manager.py).              *)
(*                                                                         *)
(* Time.  A datetime is kept as its distance in seconds from the current   *)
(* instant (last_run[t] = 0 right after "task.last_run = datetime.now()"), *)
(* and the passing of d seconds adds d to every stored distance.  The      *)
(* scheduler reads only "now - task.last_run", so this loses nothing.      *)
(***************************************************************************)
EXTENDS Integers, Sequences, FiniteSets, TLC

None == "None"
\* task.last_run = None among elapsed times, which are naturals.
Unset == 0 - 1

----------------------------------------------------------------------------
(* src/main.py : task registry, scheduler, monitor loop, prompt *)

\* The 5 minute cooldown of should_run_task.
CooldownSecs == 300
\* time.sleep(60) of the scheduler loop, on both of its paths.
SchedulerSleep == 60
\* timedelta.seconds is the seconds field of a normalised timedelta: 0..86399.
SecondsPerDay == 86400
\* A callback that runs for a day less the cooldown.
LongRun == SecondsPerDay - CooldownSecs
\* Stored distances are followed for MaxIdle seconds past a whole number of days.
MaxIdle == 360

\* Registration order of the tasks: dict order of self.tasks.
TaskOrder == <<"system_health_check", "cleanup_temp_files">>
TaskIds == {TaskOrder[i] : i \in 1..Len(TaskOrder)}
\* register_task's schedule argument: a cron-like string, or its default None.
Schedules == {None, "*/5 * * * *"}
\* How long a callback invoked by the scheduler may run, in seconds.
CallDurations == {0, LongRun}
Outcomes == {"returned", "raised"}

VARIABLES
  \* UltimateAIAutomationAgent (src/main.py)
  running,          \* self.running
  enabled,          \* task.enabled, per task id
  schedule,         \* task.schedule, per task id
  last_run,         \* task.last_run, per task id: Unset or seconds elapsed since
  sched_pc,         \* position of the scheduler thread
  sched_idx,        \* index in TaskOrder of the task the for loop is at
  prompt_pc,        \* position of the prompt (main) thread
  prompt_task,      \* the task a manual "run <id>" is executing
  mon_pc,           \* position of the background monitoring thread
  since_end,        \* history: seconds since the latest callback end, per task
  tick_considered,  \* history: tasks the for loop reached in this tick
  tick_invoked,     \* history: tasks whose callback this tick invoked
  tick_raised,      \* history: tasks whose callback raised in this tick
  \* ProcessMonitor (src/modules/process_monitor.py)
  monitoring,       \* self.monitoring
  thresholds,       \* self.thresholds
  alerts,           \* self.alerts
  pm_pc,            \* position of the monitor_loop thread
  poll,             \* the poll tick in progress; it stands for datetime.now()
  sampled,          \* history: the readings this tick has taken, per metric
  streak,           \* history: per metric, the breaches of each of the latest
                    \* consecutive ticks that read it above its threshold
  \* SafetyManager (src/modules/safety_manager.py)
  blocked_commands, \* self.safety_config['blocked_commands']
  safety_call,      \* history: the is_safe_command call whose result is unread
  \* ConfigManager (src/modules/config_manager.py)
  config,           \* self.config, as the set of its nodes
  config_set,       \* history: the latest set call and what it returned
  config_get,       \* history: the get call after the latest set, and its result
  config_del,       \* history: the delete call just made, and what it returned
  config_file,      \* the document in the configuration file on disk
  \* VoiceCommandProcessor (src/modules/voice_commands.py)
  is_listening,     \* self.is_listening
  voice_pc,         \* position of the listen_loop thread
  \* EmailAutomation (src/modules/email_automation.py)
  email_pc,         \* position of the monitor_emails thread ("none": not started)
  \* The task registry by task id as text, and the prompt's command line
  cli_tasks,        \* self.tasks: task id (a str) -> task.enabled
  cli_last,         \* history: the latest line typed at the prompt and its effect
  \* ProcessMonitor.get_alerts
  alerts_view,      \* history: the latest get_alerts call and the list it returned
  \* The bulk-send helpers (email, Telegram, WhatsApp)
  bulk,             \* the send_bulk call in progress or returned: its arguments,
                    \* its results dict, and the history of its send attempts
  \* SafetyManager's confirmation and SystemCommandExecutor
  confirm_flag,            \* self.safety_config['confirm_dangerous_actions']
  confirmation_callbacks,  \* self.confirmation_callbacks, each by what it does
  confirm_call,            \* history: the confirm_dangerous_action call just made
  exec_call,               \* history: the execute_command call just made
  \* SciFiGUI (src/gui_main.py)
  agent_running,    \* self.agent_running
  gui_status,       \* task['status'], per task id
  gui_last,         \* self.last_run_<id>: Unset (no such attribute) or its age
  gui_pc,           \* position of the background_tasks thread
  gui_idx,          \* index in TaskOrder of the task its for loop is at
  \* A polling loop started and stopped by calls (monitor, voice listener)
  loop_flag,        \* self.monitoring / self.is_listening
  loop_threads,     \* the threads started, each by the position of its loop
  \* TelegramAutomation (src/modules/telegram_automation.py) and the bot server
  tg_pending,       \* the server's updates not yet confirmed
  tg_arrived,       \* the number of updates that have arrived
  tg_last_update_id, \* last_update_id of poll_updates
  tg_offsets,       \* history: the offset the latest poll asked for
  tg_replies,       \* history: the auto-replies triggered, per update_id
  tg_pc,            \* position of the poll_updates thread
  \* FileManager.find_duplicates (src/modules/file_manager.py)
  dup,              \* the find_duplicates call in progress or returned: its
                    \* files, its loop index and its two dicts
  \* SafetyManager's action log (src/modules/safety_manager.py)
  action_log,       \* self.action_log
  logged,           \* history: the number of actions logged so far
  log_all_actions   \* self.safety_config['log_all_actions']

agentVars == <<running, enabled, schedule, last_run, sched_pc, sched_idx,
               prompt_pc, prompt_task, mon_pc, since_end,
               tick_considered, tick_invoked, tick_raised>>
healthVars == <<monitoring, thresholds, alerts, pm_pc, poll, sampled, streak>>
safetyVars == <<blocked_commands, safety_call>>
configVars == <<config, config_set, config_get, config_del, config_file>>
voiceVars == <<is_listening, voice_pc>>
emailVars == <<email_pc>>
cliVars == <<cli_tasks, cli_last>>
viewVars == <<alerts_view>>

bulkVars == <<bulk>>

coreVars == <<agentVars, healthVars, safetyVars, configVars, voiceVars, emailVars,
              cliVars, viewVars>>
execVars == <<confirm_flag, confirmation_callbacks, confirm_call, exec_call>>
guiVars == <<agent_running, gui_status, gui_last, gui_pc, gui_idx>>
loopVars == <<loop_flag, loop_threads>>
tgVars == <<tg_pending, tg_arrived, tg_last_update_id, tg_offsets, tg_replies, tg_pc>>
dupVars == <<dup>>
actionLogVars == <<action_log, logged, log_all_actions>>
laterVars == <<bulkVars, execVars, guiVars, loopVars, tgVars, dupVars,
               actionLogVars>>

vars == <<coreVars, laterVars>>

\* What the agent's threads leave alone; stop() reaches the voice processor.
notAgentNorVoice == <<healthVars, safetyVars, configVars, emailVars, cliVars,
                      viewVars, laterVars>>
notAgent == <<notAgentNorVoice, voiceVars>>

\* timedelta.seconds of an elapsed time of d seconds.
Seconds(d) == d % SecondsPerDay

\* Elapsed times of two days or more are kept as one day plus the rest: the
\* day count above one is read by nothing.
Norm(d) == IF d >= 2 * SecondsPerDay THEN SecondsPerDay + Seconds(d) ELSE d

Elapse(a, d) == IF a = Unset THEN Unset ELSE Norm(a + d)

\* The stored distances the model follows.
Tracked(a) == a = Unset \/ Seconds(a) <= MaxIdle

TrackedAll(lr) == \A t \in TaskIds : Tracked(lr[t])

\* since_end counts up to the cooldown: CooldownSecs reads "the cooldown or more".
ElapseEnd(a, d) ==
  IF a = Unset THEN Unset
  ELSE IF a + d >= CooldownSecs THEN CooldownSecs ELSE a + d

\* Truth value of task.schedule in "task.enabled and task.schedule".
Truthy(s) == s # None

\* should_run_task, on the elapsed time now - task.last_run (Unset: never run).
should_run_task(lr) ==
  IF lr # Unset /\ Seconds(lr) < CooldownSecs THEN FALSE ELSE TRUE

\* Where the for loop of the scheduler goes after the task at index i.
AfterTask(i) ==
  IF i < Len(TaskOrder) THEN [pc |-> "consider", idx |-> i + 1]
                        ELSE [pc |-> "sleep", idx |-> 0]

\* execute_task without its try/except: the exception reaches the handler
\* of the scheduler loop, which abandons the rest of the tick.
ExecuteTaskPropagates(i) == [pc |-> "sleep_err", idx |-> 0]

\* execute_task's "except Exception": the error is logged and the call
\* returns to the for loop.
ExecuteTaskOnRaise(i) == AfterTask(i)

\* The agent after start(): running is set, both background threads are at
\* the head of their loops, the prompt waits for a command.
AgentInit ==
  /\ running = TRUE
  /\ enabled = [t \in TaskIds |-> TRUE]
  /\ schedule \in [TaskIds -> Schedules]
  /\ last_run = [t \in TaskIds |-> Unset]
  /\ sched_pc = "loop"
  /\ sched_idx = 0
  /\ prompt_pc = "prompt"
  /\ prompt_task = None
  /\ mon_pc = "loop"
  /\ since_end = [t \in TaskIds |-> Unset]
  /\ tick_considered = {}
  /\ tick_invoked = {}
  /\ tick_raised = {}

promptVars == <<prompt_pc, prompt_task>>
tickVars == <<tick_considered, tick_invoked, tick_raised>>
schedVars == <<sched_pc, sched_idx>>
histVars == <<since_end>>

\* "while self.running:" of the scheduler.
SchedLoop ==
  /\ sched_pc = "loop"
  /\ IF running
       THEN /\ sched_pc' = "consider"
            /\ sched_idx' = 1
            /\ tick_considered' = {}
            /\ tick_invoked' = {}
            /\ tick_raised' = {}
       ELSE /\ sched_pc' = "exit"
            /\ UNCHANGED <<sched_idx, tickVars>>
  /\ UNCHANGED <<running, enabled, schedule, last_run, promptVars, mon_pc, histVars>>
  /\ UNCHANGED notAgent

\* "if task.enabled and task.schedule: if self.should_run_task(task):"
SchedConsider ==
  /\ sched_pc = "consider"
  /\ LET t == TaskOrder[sched_idx] IN
       /\ tick_considered' = tick_considered \cup {t}
       /\ IF enabled[t] /\ Truthy(schedule[t]) /\ should_run_task(last_run[t])
            THEN /\ sched_pc' = "call"
                 /\ UNCHANGED sched_idx
            ELSE /\ sched_pc' = AfterTask(sched_idx).pc
                 /\ sched_idx' = AfterTask(sched_idx).idx
  /\ UNCHANGED <<running, enabled, schedule, last_run, promptVars, mon_pc,
                 histVars, tick_invoked, tick_raised>>
  /\ UNCHANGED notAgent

\* execute_task up to "task.function()": the callback is invoked.
SchedCall ==
  /\ sched_pc = "call"
  /\ sched_pc' = "callback"
  /\ tick_invoked' = tick_invoked \cup {TaskOrder[sched_idx]}
  /\ UNCHANGED <<running, enabled, schedule, last_run, sched_idx, promptVars,
                 mon_pc, histVars, tick_considered, tick_raised>>
  /\ UNCHANGED notAgent

\* The callback ends after d seconds; execute_task stores last_run when it
\* returned and logs the error when it raised.
SchedCallbackEnds(outcome, d) ==
  /\ sched_pc = "callback"
  /\ LET t == TaskOrder[sched_idx]
         next == IF outcome = "returned" THEN AfterTask(sched_idx)
                                         ELSE ExecuteTaskOnRaise(sched_idx)
     IN
       /\ last_run' = [u \in TaskIds |->
                         IF u = t /\ outcome = "returned" THEN 0
                         ELSE Elapse(last_run[u], d)]
       /\ since_end' = [u \in TaskIds |->
                          IF u = t THEN 0 ELSE ElapseEnd(since_end[u], d)]
       /\ TrackedAll(last_run')
       /\ tick_raised' = IF outcome = "raised" THEN tick_raised \cup {t}
                                               ELSE tick_raised
       /\ sched_pc' = next.pc
       /\ sched_idx' = next.idx
  /\ UNCHANGED <<running, enabled, schedule, promptVars, mon_pc,
                 tick_considered, tick_invoked>>
  /\ UNCHANGED notAgent

\* time.sleep(60), at the end of the try body or in the handler.
SchedSleep ==
  /\ sched_pc \in {"sleep", "sleep_err"}
  /\ sched_pc' = "loop"
  /\ last_run' = [u \in TaskIds |-> Elapse(last_run[u], SchedulerSleep)]
  /\ since_end' = [u \in TaskIds |-> ElapseEnd(since_end[u], SchedulerSleep)]
  /\ TrackedAll(last_run')
  /\ UNCHANGED <<running, enabled, schedule, sched_idx, promptVars, mon_pc,
                 tickVars>>
  /\ UNCHANGED notAgent

Scheduler ==
  \/ SchedLoop
  \/ SchedConsider
  \/ SchedCall
  \/ \E o \in Outcomes, d \in CallDurations : SchedCallbackEnds(o, d)
  \/ SchedSleep

(* The prompt thread: run_interactive_mode and the commands it dispatches *)

\* "enable <id>": enable_task.
PromptEnable(t) ==
  /\ prompt_pc = "prompt"
  /\ enabled' = [enabled EXCEPT ![t] = TRUE]
  /\ UNCHANGED <<running, schedule, last_run, schedVars, promptVars, mon_pc,
                 histVars, tickVars>>
  /\ UNCHANGED notAgent

\* "disable <id>": disable_task.
PromptDisable(t) ==
  /\ prompt_pc = "prompt"
  /\ enabled' = [enabled EXCEPT ![t] = FALSE]
  /\ UNCHANGED <<running, schedule, last_run, schedVars, promptVars, mon_pc,
                 histVars, tickVars>>
  /\ UNCHANGED notAgent

\* "run <id>": run_task_manual calls execute_task, which invokes the callback.
PromptRun(t) ==
  /\ prompt_pc = "prompt"
  /\ prompt_pc' = "callback"
  /\ prompt_task' = t
  /\ UNCHANGED <<running, enabled, schedule, last_run, schedVars, mon_pc,
                 histVars, tickVars>>
  /\ UNCHANGED notAgent

\* The manually run callback ends; execute_task stores last_run when it
\* returned.  The time it took is the time the other threads let pass.
PromptCallbackEnds(outcome) ==
  /\ prompt_pc = "callback"
  /\ last_run' = IF outcome = "returned"
                   THEN [last_run EXCEPT ![prompt_task] = 0]
                   ELSE last_run
  /\ since_end' = [since_end EXCEPT ![prompt_task] = 0]
  /\ prompt_pc' = "prompt"
  /\ prompt_task' = None
  /\ UNCHANGED <<running, enabled, schedule, schedVars, mon_pc, tickVars>>
  /\ UNCHANGED notAgent

\* "quit": the prompt loop breaks and main() calls stop(), which clears
\* self.running and calls voice_processor.stop(): stop_continuous_listening
\* clears is_listening and joins the listener for at most two seconds.
PromptQuit ==
  /\ prompt_pc = "prompt"
  /\ running' = FALSE
  /\ is_listening' = FALSE
  /\ prompt_pc' = "stopped"
  /\ UNCHANGED <<enabled, schedule, last_run, schedVars, prompt_task, mon_pc,
                 histVars, tickVars, voice_pc>>
  /\ UNCHANGED notAgentNorVoice

Prompt ==
  \/ \E t \in TaskIds : PromptEnable(t)
  \/ \E t \in TaskIds : PromptDisable(t)
  \/ \E t \in TaskIds : PromptRun(t)
  \/ \E o \in Outcomes : PromptCallbackEnds(o)
  \/ PromptQuit

(* The background monitoring thread of start_background_monitoring *)

\* The loop without its try/except: the thread ends with the exception.
MonitorPropagates == "dead"

\* "except Exception": the error is logged and the handler sleeps.
MonitorOnRaise == "sleep_err"

\* "while self.running:" of monitor().
MonLoop ==
  /\ mon_pc = "loop"
  /\ mon_pc' = IF running THEN "body" ELSE "exit"
  /\ UNCHANGED <<running, enabled, schedule, last_run, schedVars, promptVars,
                 histVars, tickVars>>
  /\ UNCHANGED notAgent

\* The try body: its first statement reads the name psutil, which main.py
\* never imports, so the body ends there with a NameError.
MonBody ==
  /\ mon_pc = "body"
  /\ mon_pc' = MonitorOnRaise
  /\ UNCHANGED <<running, enabled, schedule, last_run, schedVars, promptVars,
                 histVars, tickVars>>
  /\ UNCHANGED notAgent

\* time.sleep(60) of the handler.
MonSleep ==
  /\ mon_pc = "sleep_err"
  /\ mon_pc' = "loop"
  /\ UNCHANGED <<running, enabled, schedule, last_run, schedVars, promptVars,
                 histVars, tickVars>>
  /\ UNCHANGED notAgent

Monitor == MonLoop \/ MonBody \/ MonSleep

(* The voice listener thread of start_continuous_listening *)

notVoice == <<agentVars, healthVars, safetyVars, configVars, emailVars, cliVars,
  viewVars, laterVars>>

\* After voice_processor.start(): the flag is set and the thread started.
VoiceInit ==
  /\ is_listening = TRUE
  /\ voice_pc = "loop"

\* "while self.is_listening:" of listen_loop.
VoiceLoop ==
  /\ voice_pc = "loop"
  /\ voice_pc' = IF is_listening THEN "body" ELSE "exit"
  /\ UNCHANGED is_listening
  /\ UNCHANGED notVoice

\* The try body: listen() returns after its timeout at the latest, the
\* command is processed; an exception goes to the handler.
VoiceBody(outcome) ==
  /\ voice_pc = "body"
  /\ voice_pc' = IF outcome = "returned" THEN "sleep" ELSE "sleep_err"
  /\ UNCHANGED is_listening
  /\ UNCHANGED notVoice

\* time.sleep(0.1) of the body, time.sleep(1) of the handler.
VoiceSleep ==
  /\ voice_pc \in {"sleep", "sleep_err"}
  /\ voice_pc' = "loop"
  /\ UNCHANGED is_listening
  /\ UNCHANGED notVoice

Voice ==
  \/ VoiceLoop
  \/ \E o \in Outcomes : VoiceBody(o)
  \/ VoiceSleep

(* The email monitor thread of start_email_monitoring *)

notEmail == <<agentVars, healthVars, safetyVars, configVars, voiceVars, cliVars,
  viewVars, laterVars>>

EmailInit == email_pc = "none"

\* start_email_monitoring: the monitor_emails thread is started.
StartEmailMonitoring ==
  /\ email_pc = "none"
  /\ email_pc' = "loop"
  /\ UNCHANGED notEmail

\* "while True:" of monitor_emails: no flag is read.
EmailLoop ==
  /\ email_pc = "loop"
  /\ email_pc' = "body"
  /\ UNCHANGED notEmail

\* check_and_auto_reply() returns or raises into the handler.
EmailBody(outcome) ==
  /\ email_pc = "body"
  /\ email_pc' = IF outcome = "returned" THEN "sleep" ELSE "sleep_err"
  /\ UNCHANGED notEmail

\* time.sleep(interval) of the body, time.sleep(60) of the handler.
EmailSleep ==
  /\ email_pc \in {"sleep", "sleep_err"}
  /\ email_pc' = "loop"
  /\ UNCHANGED notEmail

Email ==
  \/ EmailLoop
  \/ \E o \in Outcomes : EmailBody(o)
  \/ EmailSleep

----------------------------------------------------------------------------
(* src/modules/process_monitor.py : ProcessMonitor *)

\* Poll ticks the monitor loop makes.
MaxPolls == 2
\* Sensor entries psutil.sensors_temperatures() returns at most.
MaxSensors == 2

Metrics == {"cpu_percent", "memory_percent", "disk_percent", "temperature",
            "process_count"}

\* The order in which check_system_health samples the metrics.
MetricOrder == <<"cpu_percent", "memory_percent", "disk_percent", "temperature",
                 "process_count">>

\* "Default thresholds" of __init__.
DefaultThresholds ==
  [m \in Metrics |->
     CASE m = "cpu_percent" -> 80
       [] m = "memory_percent" -> 85
       [] m = "disk_percent" -> 90
       [] m = "temperature" -> 80
       [] m = "process_count" -> 1000]

\* The alert_type create_alert is called with for each metric.
AlertType(m) ==
  CASE m = "cpu_percent" -> "cpu_high"
    [] m = "memory_percent" -> "memory_high"
    [] m = "disk_percent" -> "disk_high"
    [] m = "temperature" -> "temperature_high"
    [] m = "process_count" -> "process_count_high"

\* A psutil call that raises instead of returning a reading.
Fails == 0 - 1
\* The readings psutil returns for each metric, and for a sensor entry.
ReadingsOf(m) ==
  CASE m = "cpu_percent" -> {80, 96}
    [] m = "memory_percent" -> {96}
    [] m = "disk_percent" -> {80}
    [] m = "process_count" -> {1000, 1001}
    [] m = "temperature" -> {0, 96}

\* The sensor entries of one sensors_temperatures() call, in iteration order.
SensorReadings ==
  UNION {[1..n -> ReadingsOf("temperature")] : n \in 0..MaxSensors}

\* The arguments set_threshold is called with.
ThresholdInputs ==
  { [metric |-> "temperature", value |-> 0 - 1],
    [metric |-> "uptime", value |-> 1] }

\* A comparison that also fires on a reading equal to the threshold.
ExceedsOrEquals(v, thr) == v >= thr

\* "if cpu_percent > self.thresholds[...]" and its likes.
Exceeds(v, thr) == v > thr

\* The severity argument of each create_alert call.
Severity(m, v) ==
  IF m = "process_count" THEN "medium"
  ELSE IF m = "temperature" THEN (IF v < 90 THEN "high" ELSE "critical")
  ELSE (IF v < 95 THEN "high" ELSE "critical")

\* An alert list that takes one alert of each type only.
CreateAlertOncePerType(as, type, sev, v, thr, now) ==
  IF \E i \in DOMAIN as : as[i].alert_type = type
    THEN as
    ELSE Append(as, [timestamp |-> now, alert_type |-> type, severity |-> sev,
                     value |-> v, threshold |-> thr])

\* An alert list that lets its oldest alert go once it holds two.
CreateAlertDropsOldest(as, type, sev, v, thr, now) ==
  LET added == Append(as, [timestamp |-> now, alert_type |-> type,
                           severity |-> sev, value |-> v, threshold |-> thr])
  IN IF Len(as) >= 2 THEN Tail(added) ELSE added

\* create_alert: the alert is appended to self.alerts (its log line and the
\* alert callbacks, whose exceptions it catches, change nothing here).
create_alert(as, type, sev, v, thr, now) ==
  Append(as, [timestamp |-> now, alert_type |-> type, severity |-> sev,
              value |-> v, threshold |-> thr])

\* One "if reading > threshold: self.create_alert(...)".
CheckReading(as, m, v, thr, now) ==
  IF Exceeds(v, thr)
    THEN create_alert(as, AlertType(m), Severity(m, v), v, thr, now)
    ELSE as

\* "if entry.current and entry.current > threshold: self.create_alert(...)":
\* a reading of 0 is falsy.
CheckEntry(as, v, thr, now) ==
  IF v # 0 /\ Exceeds(v, thr)
    THEN create_alert(as, AlertType("temperature"), Severity("temperature", v),
                      v, thr, now)
    ELSE as

\* The temperature loop over the sensor entries rs, from entry i on.
RECURSIVE CheckSensors(_, _, _, _, _)
CheckSensors(as, rs, i, thr, now) ==
  IF i > Len(rs) THEN as
  ELSE CheckSensors(CheckEntry(as, rs[i], thr, now), rs, i + 1, thr, now)

\* The metrics check_system_health samples after metric number i.
MetricsAfter(i) == {MetricOrder[j] : j \in (i + 1)..Len(MetricOrder)}

\* History: a reading with the threshold it was compared to.
Sample(v, thr) == [value |-> v, threshold |-> thr]

\* History: the entries of a tick that count as breaches of metric m: above
\* their threshold and, for a sensor entry, not zero.
BreachCount(m, rs, thr) ==
  Cardinality({j \in DOMAIN rs : rs[j] > thr /\ (m = "temperature" => rs[j] # 0)})

\* History: streak[m] after a tick that read rs for metric m.
StreakAfter(old, m, rs, thr) ==
  IF \E j \in DOMAIN rs : rs[j] > thr
    THEN Append(old, BreachCount(m, rs, thr))
    ELSE <<>>

HealthInit ==
  /\ monitoring = FALSE
  /\ thresholds = DefaultThresholds
  /\ alerts = <<>>
  /\ pm_pc = "none"
  /\ poll = 0
  /\ sampled = [m \in Metrics |-> <<>>]
  /\ streak = [m \in Metrics |-> <<>>]

notHealth == <<agentVars, safetyVars, configVars, voiceVars, emailVars, cliVars,
  viewVars, laterVars>>

\* start_monitoring: returns when monitoring is already on, else sets the
\* flag and starts a monitor_loop thread.  The model follows one such thread:
\* a new one is started once the previous one has left its loop.
StartMonitoring ==
  /\ pm_pc \in {"none", "exit"}
  /\ IF monitoring
       THEN UNCHANGED <<monitoring, pm_pc>>
       ELSE /\ monitoring' = TRUE
            /\ pm_pc' = "loop"
  /\ UNCHANGED <<thresholds, alerts, poll, sampled, streak>>
  /\ UNCHANGED notHealth

\* stop_monitoring.
StopMonitoring ==
  /\ monitoring' = FALSE
  /\ UNCHANGED <<thresholds, alerts, pm_pc, poll, sampled, streak>>
  /\ UNCHANGED notHealth

\* set_threshold(metric, value).
SetThreshold(metric, value) ==
  /\ thresholds' = IF metric \in DOMAIN thresholds
                     THEN [thresholds EXCEPT ![metric] = value]
                     ELSE thresholds
  /\ UNCHANGED <<monitoring, alerts, pm_pc, poll, sampled, streak>>
  /\ UNCHANGED notHealth

\* "while self.monitoring:" and the entry into check_system_health.
PmLoop ==
  /\ pm_pc = "loop"
  /\ IF monitoring
       THEN /\ poll < MaxPolls
            /\ poll' = poll + 1
            /\ pm_pc' = MetricOrder[1]
       ELSE /\ pm_pc' = "exit"
            /\ UNCHANGED poll
  /\ UNCHANGED <<monitoring, thresholds, alerts, sampled, streak>>
  /\ UNCHANGED notHealth

\* The check of metric number i (CPU, memory, disk or process count) with
\* reading r.  A psutil call that raises ends check_system_health in its
\* "except Exception", and the metrics after it are not sampled.
PmCheck(i, r) ==
  /\ i \in {1, 2, 3, 5}
  /\ pm_pc = MetricOrder[i]
  /\ LET m == MetricOrder[i] IN
       IF r = Fails
         THEN /\ pm_pc' = "sleep"
              /\ streak' = [k \in Metrics |->
                              IF k = m \/ k \in MetricsAfter(i) THEN <<>> ELSE streak[k]]
              /\ UNCHANGED <<alerts, sampled>>
         ELSE /\ alerts' = CheckReading(alerts, m, r, thresholds[m], poll)
              /\ sampled' = [sampled EXCEPT ![m] = <<Sample(r, thresholds[m])>>]
              /\ streak' = [streak EXCEPT ![m] =
                              StreakAfter(streak[m], m, <<r>>, thresholds[m])]
              /\ pm_pc' = IF i < Len(MetricOrder) THEN MetricOrder[i + 1] ELSE "sleep"
  /\ UNCHANGED <<monitoring, thresholds, poll>>
  /\ UNCHANGED notHealth

\* The temperature check: sensors_temperatures() raises (the inner
\* "except: pass") or returns the entries rs.
PmTemperature(failed, rs) ==
  /\ pm_pc = "temperature"
  /\ LET thr == thresholds["temperature"] IN
       IF failed
         THEN /\ streak' = [streak EXCEPT !["temperature"] = <<>>]
              /\ UNCHANGED <<alerts, sampled>>
         ELSE /\ alerts' = CheckSensors(alerts, rs, 1, thr, poll)
              /\ sampled' = [sampled EXCEPT !["temperature"] =
                               [j \in DOMAIN rs |-> Sample(rs[j], thr)]]
              /\ streak' = [streak EXCEPT !["temperature"] =
                              StreakAfter(streak["temperature"], "temperature", rs, thr)]
  /\ pm_pc' = "process_count"
  /\ UNCHANGED <<monitoring, thresholds, poll>>
  /\ UNCHANGED notHealth

\* time.sleep(interval) of monitor_loop.
PmSleep ==
  /\ pm_pc = "sleep"
  /\ pm_pc' = "loop"
  /\ sampled' = [m \in Metrics |-> <<>>]
  /\ UNCHANGED <<monitoring, thresholds, alerts, poll, streak>>
  /\ UNCHANGED notHealth

HealthNext ==
  \/ StartMonitoring
  \/ StopMonitoring
  \/ \E in \in ThresholdInputs : SetThreshold(in.metric, in.value)
  \/ PmLoop
  \/ \E i \in 1..Len(MetricOrder) :
       \E r \in ReadingsOf(MetricOrder[i]) \cup {Fails} : PmCheck(i, r)
  \/ \E rs \in SensorReadings : PmTemperature(FALSE, rs)
  \/ PmTemperature(TRUE, <<>>)
  \/ PmSleep

(* get_alerts and clear_alerts *)

\* The severity argument of get_alerts: None, or a severity to keep.
SeverityFilters == {None, "critical"}

\* The hours argument of get_alerts, in poll ticks: the current tick only,
\* and the default of 24 hours on 30 second ticks.
Windows == {0, 2880}

\* "[alert for alert in self.alerts if alert.timestamp >= cutoff_time]" and
\* the severity filter, applied when the argument is truthy.
FilterAlerts(as, severity, cutoff) ==
  SelectSeq(as, LAMBDA a : /\ a.timestamp >= cutoff
                           /\ (severity # None => a.severity = severity))

\* sorted(..., key=timestamp, reverse=True): a stable sort, newest first.
\* An alert goes behind the alerts that are as new or newer.
InsertNewestFirst(sorted, a) ==
  LET n == Cardinality({i \in DOMAIN sorted : sorted[i].timestamp >= a.timestamp})
  IN SubSeq(sorted, 1, n) \o <<a>> \o SubSeq(sorted, n + 1, Len(sorted))

RECURSIVE SortNewestFirst(_, _, _)
SortNewestFirst(as, i, sorted) ==
  IF i > Len(as) THEN sorted
  ELSE SortNewestFirst(as, i + 1, InsertNewestFirst(sorted, as[i]))

\* What get_alerts returns.
get_alerts(as, severity, hours, now) ==
  SortNewestFirst(FilterAlerts(as, severity, now - hours), 1, <<>>)

ViewInit == alerts_view = <<>>

notView == <<agentVars, safetyVars, configVars, voiceVars, emailVars, cliVars,
  laterVars>>

\* A call get_alerts(severity, hours).
GetAlerts(severity, hours) ==
  /\ alerts_view' = <<[severity |-> severity, hours |-> hours,
                       returned |-> get_alerts(alerts, severity, hours, poll)]>>
  /\ UNCHANGED healthVars
  /\ UNCHANGED notView

\* clear_alerts.
ClearAlerts ==
  /\ alerts' = <<>>
  /\ alerts_view' = <<>>
  /\ UNCHANGED <<monitoring, thresholds, pm_pc, poll, sampled, streak>>
  /\ UNCHANGED notView

\* The highest reading of a metric.
TopReading(m) == CHOOSE r \in ReadingsOf(m) : \A q \in ReadingsOf(m) : q <= r

\* The monitor on readings at their highest (no sensor entry, or MaxSensors
\* of them), with the calls that read and clear the alert list.
AlertsNext ==
  \/ StartMonitoring
  \/ \E in \in ThresholdInputs : SetThreshold(in.metric, in.value)
  \/ PmLoop
  \/ \E i \in 1..Len(MetricOrder) : PmCheck(i, TopReading(MetricOrder[i]))
  \/ \E rs \in SensorReadings :
       /\ Len(rs) \in {0, MaxSensors}
       /\ \A j \in DOMAIN rs : rs[j] = TopReading("temperature")
       /\ PmTemperature(FALSE, rs)
  \/ PmSleep
  \/ \E severity \in SeverityFilters, hours \in Windows : GetAlerts(severity, hours)
  \/ ClearAlerts

----------------------------------------------------------------------------
(* src/modules/safety_manager.py : SafetyManager.is_safe_command *)

\* A Python str is the sequence of its characters.
\* Words a command is put together from, at most MaxWords of them.
MaxWords == 2

UpperAlphabet == <<"A", "B", "C", "D", "E", "F", "G", "H", "I", "J", "K", "L", "M",
                   "N", "O", "P", "Q", "R", "S", "T", "U", "V", "W", "X", "Y", "Z">>
LowerAlphabet == <<"a", "b", "c", "d", "e", "f", "g", "h", "i", "j", "k", "l", "m",
                   "n", "o", "p", "q", "r", "s", "t", "u", "v", "w", "x", "y", "z">>

\* str.lower() on one character, and on a str.
Lower(c) ==
  IF \E i \in DOMAIN UpperAlphabet : UpperAlphabet[i] = c
    THEN LowerAlphabet[CHOOSE i \in DOMAIN UpperAlphabet : UpperAlphabet[i] = c]
    ELSE c
LowerStr(str) == [i \in DOMAIN str |-> Lower(str[i])]

\* "needle in haystack" on two str.
Contains(haystack, needle) ==
  \E off \in 0..(Len(haystack) - Len(needle)) :
    \A j \in 1..Len(needle) : haystack[off + j] = needle[j]

\* safety_config['blocked_commands'] as __init__ sets it.
DefaultBlocked ==
  <<<<"r", "m", " ", "-", "r", "f", " ", "/">>,
    <<"f", "o", "r", "m", "a", "t">>,
    <<"d", "e", "l", " ", "/", "s", " ", "/", "q", " ", "C", ":", "\\">>,
    <<"s", "h", "u", "t", "d", "o", "w", "n">>,
    <<"r", "e", "b", "o", "o", "t">>>>

\* An entry of a configured blocklist that is no str (str.lower is missing).
NotAString == <<"<not a str>">>

\* The blocklists update_safety_config installs.
BlockLists ==
  { DefaultBlocked,
    <<>>,
    <<<<"F", "o", "r", "M", "a", "t">>>>,
    <<<<"r", "e", "b", "o", "o", "t">>, NotAString>>,
    <<NotAString, <<"r", "e", "b", "o", "o", "t">>>>,
    <<<<>>>> }

\* dangerous_patterns of is_safe_command.
DangerousPatterns ==
  <<<<"r", "m", " ", "-", "r", "f">>,
    <<"d", "e", "l", " ", "/", "s">>,
    <<"f", "o", "r", "m", "a", "t">>,
    <<"f", "d", "i", "s", "k">>,
    <<"d", "d", " ", "i", "f", "=">>,
    <<"s", "h", "u", "t", "d", "o", "w", "n">>,
    <<"r", "e", "b", "o", "o", "t">>,
    <<"h", "a", "l", "t">>,
    <<"p", "o", "w", "e", "r", "o", "f", "f">>,
    <<"t", "a", "s", "k", "k", "i", "l", "l", " ", "/", "f">>,
    <<"k", "i", "l", "l", " ", "-", "9">>,
    <<"k", "i", "l", "l", "a", "l", "l">>>>

DeletionOps == {<<"r", "m", " ">>, <<"d", "e", "l", " ">>, <<"r", "m", "d", "i", "r", " ">>, <<"r", "d", " ">>}
PermissionOps == {<<"c", "h", "m", "o", "d", " ">>, <<"c", "h", "o", "w", "n", " ">>, <<"a", "t", "t", "r", "i", "b", " ">>}

CommandWords ==
  {<<"f", "o", "r">>,
   <<"m", "a", "t">>,
   <<"F", "O", "R", "M", "A", "T">>,
   <<"S", "h", "u", "t", "d", "o", "w", "n">>,
   <<"r", "m", " ", "-", "r", "f", " ", "/">>,
   <<"D", "E", "L", " ", "/", "S", " ", "/", "Q", " ", "c", ":", "\\">>,
   <<"l", "s">>,
   <<" ", "-", "l">>,
   <<"R", "e">>,
   <<"B", "O", "O", "T">>,
   <<"c", "h", "m", "o", "d", " ">>}

RECURSIVE WordsUpTo(_)
WordsUpTo(n) ==
  IF n = 0 THEN {<<>>}
  ELSE WordsUpTo(n - 1) \cup {c \o w : c \in WordsUpTo(n - 1), w \in CommandWords}

\* The commands is_safe_command is called with.
Commands == WordsUpTo(MaxWords)

\* The blocklist entry as it is searched for, without lowering it.
BlockedNeedleAsIs(entry) == entry

\* "blocked_cmd.lower()".
BlockedNeedle(entry) == LowerStr(entry)

\* The loop over the blocklist from entry i on: "hit" at the first entry
\* found in the lowered command (the break), "error" at an entry whose
\* .lower() raises, "none" at the end of the list.
RECURSIVE ScanBlocked(_, _, _)
ScanBlocked(blocked, i, command_lower) ==
  IF i > Len(blocked) THEN "none"
  ELSE IF blocked[i] = NotAString THEN "error"
  ELSE IF Contains(command_lower, BlockedNeedle(blocked[i])) THEN "hit"
  ELSE ScanBlocked(blocked, i + 1, command_lower)

\* The warnings of the dangerous-pattern loop, in list order.
DangerWarnings(command_lower) ==
  SelectSeq(DangerousPatterns, LAMBDA pat : Contains(command_lower, pat))

\* is_safe_command(command) under the blocklist blocked.
is_safe_command(command, blocked) ==
  LET command_lower == LowerStr(command)
      scan == ScanBlocked(blocked, 1, command_lower)
      danger == DangerWarnings(command_lower)
  IN IF scan = "error"
       THEN [safe |-> FALSE, warnings |-> <<>>, blocked |-> TRUE,
             reason |-> "Error in safety check",
             deletion |-> FALSE, permissions |-> FALSE]
       ELSE [safe |-> (scan = "none" /\ danger = <<>>),
             warnings |-> danger,
             blocked |-> (scan = "hit"),
             reason |-> IF scan = "hit" THEN "Command contains blocked pattern"
                                        ELSE "",
             deletion |-> \E op \in DeletionOps : Contains(command_lower, op),
             permissions |-> \E op \in PermissionOps : Contains(command_lower, op)]

SafetyInit ==
  /\ blocked_commands = DefaultBlocked
  /\ safety_call = <<>>

notSafety == <<agentVars, healthVars, configVars, voiceVars, emailVars, cliVars,
  viewVars, laterVars>>

\* update_safety_config({'blocked_commands': bl}).
UpdateSafetyConfig(bl) ==
  /\ blocked_commands' = bl
  /\ UNCHANGED safety_call
  /\ UNCHANGED notSafety

\* A call is_safe_command(command); safety_call holds it until the caller has
\* read the result.
IsSafeCommand(command) ==
  /\ safety_call = <<>>
  /\ safety_call' = <<[command |-> command, blocklist |-> blocked_commands,
                       result |-> is_safe_command(command, blocked_commands)]>>
  /\ UNCHANGED blocked_commands
  /\ UNCHANGED notSafety

\* History: the caller has read the result.
SafetyResultRead ==
  /\ safety_call # <<>>
  /\ safety_call' = <<>>
  /\ UNCHANGED blocked_commands
  /\ UNCHANGED notSafety

SafetyNext ==
  \/ \E bl \in BlockLists : UpdateSafetyConfig(bl)
  \/ \E command \in Commands : IsSafeCommand(command)
  \/ SafetyResultRead

----------------------------------------------------------------------------
(* src/modules/config_manager.py : ConfigManager.get and ConfigManager.set *)

\* set calls made on one ConfigManager.
MaxSets == 2

\* The value a get returns when its default applies, two scalars, an empty
\* dict and a list: JSON values.  A value is a record of its kind, its
\* content when it is a scalar, and the nodes below it when it is a dict.
NoneValue == [kind |-> "none", v |-> "None", sub |-> {}]
Scalar(x) == [kind |-> "scalar", v |-> x, sub |-> {}]
EmptyDict == [kind |-> "dict", v |-> "{}", sub |-> {}]
ListValue == [kind |-> "list", v |-> "[]", sub |-> {}]
Absent == [kind |-> "absent", v |-> "", sub |-> {}]

\* The values set is called with.
ConfigValues == {Scalar("s1"), Scalar("s2"), NoneValue, EmptyDict}

\* The dotted keys get and set are called with, as Python str.
ConfigKeys ==
  {<<"a">>,
   <<"b">>,
   <<"a", ".", "b">>,
   <<"a", ".", "b", ".", "a">>,
   <<"b", ".", "a">>,
   <<>>,
   <<"a", ".">>,
   <<"a", ".", ".", "b">>}

\* self.config is the set of its nodes <<path, value>>: path is the sequence
\* of dict keys from the root, value.sub is empty (the nodes below a dict are
\* nodes of their own).  The root, path <<>>, is a dict.
SegA == <<"a">>
SegB == <<"b">>

\* The documents load_config leaves in self.config.
InitialConfigs ==
  { {},
    {<<<<SegA>>, Scalar("s1")>>},
    {<<<<SegA>>, ListValue>>},
    {<<<<SegA>>, EmptyDict>>, <<<<SegA, SegB>>, Scalar("s2")>>},
    {<<<<SegA>>, EmptyDict>>, <<<<SegA, SegB>>, EmptyDict>>, <<<<SegA, SegB, SegA>>, Scalar("s1")>>},
    {<<<<SegB>>, NoneValue>>, <<<<SegA>>, EmptyDict>>, <<<<SegA, <<>>>>, Scalar("s1")>>} }

\* key.split('.'), from character i on: cur is the segment being read and
\* acc the segments read.
RECURSIVE SplitFrom(_, _, _, _)
SplitFrom(key, i, cur, acc) ==
  IF i > Len(key) THEN Append(acc, cur)
  ELSE IF key[i] = "." THEN SplitFrom(key, i + 1, <<>>, Append(acc, cur))
  ELSE SplitFrom(key, i + 1, Append(cur, key[i]), acc)

Split(key) == SplitFrom(key, 1, <<>>, <<>>)

Prefix(keys, n) == SubSeq(keys, 1, n)

\* The value at a path of the document, Absent when nothing is there.
NodeAt(doc, path) ==
  IF path = <<>> THEN EmptyDict
  ELSE IF \E n \in doc : n[1] = path
    THEN (CHOOSE n \in doc : n[1] = path)[2]
    ELSE Absent

\* The nodes below a path, and the same with their paths taken from it.
Below(doc, path) ==
  {n \in doc : /\ Len(n[1]) > Len(path)
               /\ SubSeq(n[1], 1, Len(path)) = path}
SubtreeAt(doc, path) ==
  {<<SubSeq(n[1], Len(path) + 1, Len(n[1])), n[2]>> : n \in Below(doc, path)}

\* The object a walk has arrived at: a dict comes with what is below it.
ObjectAt(doc, path) ==
  [NodeAt(doc, path) EXCEPT !.sub = SubtreeAt(doc, path)]

\* The for loop of get over keys, from segment i on.
RECURSIVE GetWalk(_, _, _, _)
GetWalk(doc, keys, i, default) ==
  IF i > Len(keys) THEN ObjectAt(doc, keys)
  ELSE IF /\ NodeAt(doc, Prefix(keys, i - 1)).kind = "dict"
          /\ NodeAt(doc, Prefix(keys, i)).kind # "absent"
    THEN GetWalk(doc, keys, i + 1, default)
    ELSE default

\* get(key, default).
get(doc, key, default) == GetWalk(doc, Split(key), 1, default)

\* An assignment that keeps the value a key already has.
AssignKeepsOld(doc, path, value) ==
  IF NodeAt(doc, path).kind # "absent"
    THEN doc
    ELSE doc \cup {<<path, value>>}

\* "config[keys[-1]] = value" on the dict the walk arrived at: the key's old
\* value, with all that was below it, is replaced.
Assign(doc, path, value) ==
  ((doc \ Below(doc, path)) \ {n \in doc : n[1] = path})
    \cup {<<path, [value EXCEPT !.sub = {}]>>}
    \cup {<<path \o n[1], n[2]>> : n \in value.sub}

\* The body of set from segment i on; ok is FALSE when a statement raised
\* (a membership test, an item assignment or a subscript on a non-dict).
RECURSIVE SetWalk(_, _, _, _)
SetWalk(doc, keys, i, value) ==
  IF NodeAt(doc, Prefix(keys, i - 1)).kind # "dict"
    THEN [ok |-> FALSE, doc |-> doc]
  ELSE IF i = Len(keys)
    THEN [ok |-> TRUE, doc |-> Assign(doc, keys, value)]
  ELSE SetWalk(IF NodeAt(doc, Prefix(keys, i)).kind = "absent"
                 THEN doc \cup {<<Prefix(keys, i), EmptyDict>>}
                 ELSE doc,
               keys, i + 1, value)

\* set(key, value): the document after the call and the value returned.
set(doc, key, value) == SetWalk(doc, Split(key), 1, value)

\* The walk of delete over keys[:-1], then the del statement: ok is the
\* value returned.
RECURSIVE DeleteWalk(_, _, _)
DeleteWalk(doc, keys, i) ==
  IF i < Len(keys)
    THEN IF /\ NodeAt(doc, Prefix(keys, i - 1)).kind = "dict"
            /\ NodeAt(doc, Prefix(keys, i)).kind # "absent"
           THEN DeleteWalk(doc, keys, i + 1)
           ELSE [ok |-> FALSE, doc |-> doc]
  ELSE IF /\ NodeAt(doc, Prefix(keys, i - 1)).kind = "dict"
          /\ NodeAt(doc, keys).kind # "absent"
    THEN [ok |-> TRUE,
          doc |-> (doc \ Below(doc, keys)) \ {n \in doc : n[1] = keys}]
    ELSE [ok |-> FALSE, doc |-> doc]

\* A delete that drops the dict it looked in when the key is not there.
DeleteDropsParent(doc, key) ==
  LET keys == Split(key)
      r == DeleteWalk(doc, keys, 1)
      parent == Prefix(keys, Len(keys) - 1)
  IN IF r.ok THEN r
     ELSE [ok |-> FALSE,
           doc |-> (doc \ Below(doc, parent)) \ {n \in doc : n[1] = parent}]

\* delete(key): the document after the call and the value returned.
delete(doc, key) == DeleteWalk(doc, Split(key), 1)

ConfigInit ==
  /\ config \in InitialConfigs
  /\ config_set = <<>>
  /\ config_get = <<>>
  /\ config_del = <<>>
  /\ config_file = config

notConfig == <<agentVars, healthVars, safetyVars, voiceVars, emailVars, cliVars,
  viewVars, laterVars>>

\* History: the number of set calls made.
SetsMade == IF config_set = <<>> THEN 0 ELSE config_set[1].n

\* A call set(key, value).
ConfigSet(key, value) ==
  /\ SetsMade < MaxSets
  /\ LET r == set(config, key, value) IN
       /\ config' = r.doc
       /\ config_set' = <<[key |-> key, value |-> value, ret |-> r.ok,
                           n |-> SetsMade + 1]>>
  /\ config_get' = <<>>
  /\ config_del' = <<>>
  /\ UNCHANGED config_file
  /\ UNCHANGED notConfig

\* A call get(key), with the default None.
ConfigGet(key) ==
  /\ config_get' = <<[key |-> key, ret |-> get(config, key, NoneValue)]>>
  /\ config_del' = <<>>
  /\ UNCHANGED <<config, config_set, config_file>>
  /\ UNCHANGED notConfig

\* A call delete(key).
ConfigDelete(key) ==
  /\ LET r == delete(config, key) IN
       /\ config' = r.doc
       /\ config_del' = <<[key |-> key, ret |-> r.ok]>>
  /\ config_get' = <<>>
  /\ UNCHANGED <<config_set, config_file>>
  /\ UNCHANGED notConfig

\* json.dump followed by json.load on a value: strings, None, dicts and lists
\* come back as they went.
JsonRoundTrip(value) ==
  CASE value.kind = "dict" -> [value EXCEPT !.kind = "dict"]
    [] value.kind = "list" -> [value EXCEPT !.kind = "list"]
    [] OTHER -> value

\* save_config(): self.config is written to the file, or the write fails and
\* the file is what it was.
ConfigSave(ok) ==
  /\ config_file' = IF ok THEN {<<n[1], JsonRoundTrip(n[2])>> : n \in config}
                          ELSE config_file
  /\ UNCHANGED <<config, config_set, config_get, config_del>>
  /\ UNCHANGED notConfig

\* load_config(), as the constructors of the adapters call it: self.config
\* becomes what the file holds.
ConfigLoad ==
  /\ config' = config_file
  /\ config_get' = <<>>
  /\ config_del' = <<>>
  /\ UNCHANGED <<config_set, config_file>>
  /\ UNCHANGED notConfig

ConfigNext ==
  \/ \E key \in ConfigKeys, value \in ConfigValues : ConfigSet(key, value)
  \/ \E key \in ConfigKeys : ConfigGet(key)

\* The set calls made at most in the behaviours with delete or with the file.
MaxOpsSets == 1

\* set, get, save_config and load_config, with at most MaxOpsSets set calls.
ConfigFileNext ==
  \/ \E key \in ConfigKeys, value \in ConfigValues :
       SetsMade < MaxOpsSets /\ ConfigSet(key, value)
  \/ \E key \in ConfigKeys : ConfigGet(key)
  \/ \E ok \in BOOLEAN : ConfigSave(ok)
  \/ ConfigLoad

\* Whether the caller has read what the get or delete before returned.
ConfigResultPending == config_get # <<>> \/ config_del # <<>>

ConfigResultRead ==
  /\ ConfigResultPending
  /\ config_get' = <<>>
  /\ config_del' = <<>>
  /\ UNCHANGED <<config, config_set, config_file>>
  /\ UNCHANGED notConfig

\* get, set and delete together, with at most MaxOpsSets set calls.
ConfigOpsNext ==
  \/ \E key \in ConfigKeys, value \in ConfigValues :
       ~ConfigResultPending /\ SetsMade < MaxOpsSets /\ ConfigSet(key, value)
  \/ \E key \in ConfigKeys : ~ConfigResultPending /\ ConfigGet(key)
  \/ \E key \in ConfigKeys : ~ConfigResultPending /\ ConfigDelete(key)
  \/ ConfigResultRead

----------------------------------------------------------------------------
(* src/main.py : the command line of run_interactive_mode *)

\* The registries the prompt works on: the ids register_task was called with.
Registries ==
  { {<<"c", "l", "e", "a", "n", "u", "p", "_", "t", "e", "m", "p", "_", "f", "i", "l", "e", "s">>},
    {<<"c", "l", "e", "a", "n", "u", "p", "_", "t", "e", "m", "p", "_", "f", "i", "l", "e", "s">>, <<"b", "a", "c", "k", "u", "p">>},
    {<<"B", "a", "c", "k", "u", "p">>},
    {<<"c", "l", "e", "a", "n", "u", "p", "_", "t", "e", "m", "p", "_", "f", "i", "l", "e", "s">>, <<"B", "a", "c", "k", "u", "p">>},
    {<<"b", "a", "c", "k", "u", "p">>, <<"B", "a", "c", "k", "u", "p">>},
    {<<"d", "a", "i", "l", "y", " ", " ", "r", "e", "p", "o", "r", "t">>} }

\* Blanks the user types around a command.
Paddings == {<<>>, <<" ">>}

\* The verbs of the commands that take a task id.
Verbs == {"run", "enable", "disable"}
VerbText(verb) ==
  CASE verb = "run" -> <<"r", "u", "n">>
    [] verb = "enable" -> <<"e", "n", "a", "b", "l", "e">>
    [] verb = "disable" -> <<"d", "i", "s", "a", "b", "l", "e">>

\* No task: the command found none.
NoTask == <<"<no task>">>

\* str.strip(): the blanks at both ends are dropped.
RECURSIVE StripLeft(_)
StripLeft(str) ==
  IF str # <<>> /\ Head(str) = " " THEN StripLeft(Tail(str)) ELSE str
RECURSIVE StripRight(_)
StripRight(str) ==
  IF str # <<>> /\ str[Len(str)] = " "
    THEN StripRight(SubSeq(str, 1, Len(str) - 1))
    ELSE str
Strip(str) == StripRight(StripLeft(str))

\* str.startswith(prefix).
StartsWith(str, prefix) ==
  /\ Len(str) >= Len(prefix)
  /\ SubSeq(str, 1, Len(prefix)) = prefix

\* "command = input(...).strip().lower()".
CommandOf(line) == LowerStr(Strip(line))

\* The if/elif chain of run_interactive_mode on one line: the verb it
\* dispatches on and the task id it passes on ("command[4:]" and its likes).
Dispatch(line) ==
  LET command == CommandOf(line)
      rest(n) == SubSeq(command, n + 1, Len(command))
  IN IF command \in {<<"q", "u", "i", "t">>, <<"e", "x", "i", "t">>}
       THEN [verb |-> "quit", task_id |-> NoTask]
     ELSE IF command \in {<<"h", "e", "l", "p">>, <<"s", "t", "a", "t", "u", "s">>, <<"t", "a", "s", "k", "s">>}
       THEN [verb |-> "show", task_id |-> NoTask]
     ELSE IF StartsWith(command, <<"r", "u", "n", " ">>)
       THEN [verb |-> "run", task_id |-> rest(4)]
     ELSE IF StartsWith(command, <<"e", "n", "a", "b", "l", "e", " ">>)
       THEN [verb |-> "enable", task_id |-> rest(7)]
     ELSE IF StartsWith(command, <<"d", "i", "s", "a", "b", "l", "e", " ">>)
       THEN [verb |-> "disable", task_id |-> rest(8)]
     ELSE [verb |-> "unknown", task_id |-> NoTask]

CliInit ==
  /\ \E reg \in Registries : cli_tasks = [id \in reg |-> TRUE]
  /\ cli_last = <<>>

notCli == <<agentVars, healthVars, safetyVars, configVars, voiceVars, emailVars,
           viewVars, laterVars>>

\* The user types "<verb> <id>" for a registered task id, with or without
\* blanks around it; run_task_manual,
\* enable_task or disable_task act when "task_id in self.tasks".
TypeCommand(verb, id, pad) ==
  /\ id \in DOMAIN cli_tasks
  /\ LET line == pad \o VerbText(verb) \o <<" ">> \o id \o pad
         d == Dispatch(line)
         found == d.task_id \in DOMAIN cli_tasks
     IN
       /\ cli_tasks' =
            IF found /\ d.verb = "enable" THEN [cli_tasks EXCEPT ![d.task_id] = TRUE]
            ELSE IF found /\ d.verb = "disable" THEN [cli_tasks EXCEPT ![d.task_id] = FALSE]
            ELSE cli_tasks
       /\ cli_last' = <<[verb |-> verb, id |-> id, line |-> line,
                         before |-> cli_tasks,
                         executed |-> IF found /\ d.verb = "run" THEN d.task_id
                                                                  ELSE NoTask]>>
  /\ UNCHANGED notCli

CliNext ==
  \E verb \in Verbs, pad \in Paddings :
    \E id \in DOMAIN cli_tasks : TypeCommand(verb, id, pad)

-----------------------------------------------------------------------------
(* The bulk-send helpers: EmailAutomation.send_bulk_email,
   TelegramAutomation.send_bulk_message, WhatsAppAutomation.send_bulk_message
   (src/modules/email_automation.py, telegram_automation.py,
   whatsapp_automation.py).  The three loops are the same statement for
   statement; one model stands for them. *)

MaxRecipients == 2

\* Recipient lists, repeats included.
RecipientLists ==
  UNION {[1..n -> {"ann", "bob"}] : n \in 0..MaxRecipients}

\* What one call of send_email / send_message does: it returns True, returns
\* False, or raises.
SendOutcomes == {"sent", "refused", "raised"}

\* The delay argument, by the two things the loop does with it: the test
\* delay > 0, and time.sleep(delay), which raises OverflowError for a delay
\* too large for the platform's clock (10**20 is one).
Delays ==
  {[positive |-> FALSE, sleeps |-> TRUE],
   [positive |-> TRUE, sleeps |-> TRUE],
   [positive |-> TRUE, sleeps |-> FALSE]}

NoBulk ==
  [pc |-> "none", recipients |-> <<>>, delay |-> [positive |-> FALSE, sleeps |-> TRUE],
   i |-> 1, success |-> <<>>, failed |-> <<>>, total |-> 0, attempts |-> <<>>]

BulkInit == bulk = NoBulk

notBulk == <<coreVars, execVars, guiVars, loopVars, tgVars, dupVars,
  actionLogVars>>

\* The body of the try statement up to the delay: the send and the tally.
Tally(b, recipient, outcome) ==
  CASE outcome = "sent" -> [b EXCEPT !.success = Append(@, recipient)]
    [] outcome = "refused" -> [b EXCEPT !.failed = Append(@, recipient)]
    [] OTHER -> b

\* Whether the try statement leaves through its except clause: the send
\* raised, or the sleep after the tally did.
Excepts(outcome, delay) ==
  \/ outcome = "raised"
  \/ delay.positive /\ ~delay.sleeps

\* One iteration of the for loop.
Iteration(b, recipient, outcome) ==
  LET tallied == Tally(b, recipient, outcome)
      handled == IF Excepts(outcome, b.delay)
                   THEN [tallied EXCEPT !.failed = Append(@, recipient)]
                   ELSE tallied
  IN [handled EXCEPT !.i = @ + 1, !.attempts = Append(@, outcome)]

\* The call: the results dict is built and the loop entered.
SendBulk(recipients, delay) ==
  /\ bulk.pc \in {"none", "returned"}
  /\ bulk' = [pc |-> "loop", recipients |-> recipients, delay |-> delay, i |-> 1,
              success |-> <<>>, failed |-> <<>>, total |-> Len(recipients),
              attempts |-> <<>>]
  /\ UNCHANGED notBulk

BulkIteration(outcome) ==
  /\ bulk.pc = "loop"
  /\ bulk.i <= Len(bulk.recipients)
  /\ bulk' = Iteration(bulk, bulk.recipients[bulk.i], outcome)
  /\ UNCHANGED notBulk

BulkReturn ==
  /\ bulk.pc = "loop"
  /\ bulk.i > Len(bulk.recipients)
  /\ bulk' = [bulk EXCEPT !.pc = "returned"]
  /\ UNCHANGED notBulk

BulkNext ==
  \/ \E recipients \in RecipientLists, delay \in Delays : SendBulk(recipients, delay)
  \/ \E outcome \in SendOutcomes : BulkIteration(outcome)
  \/ BulkReturn

-----------------------------------------------------------------------------
(* src/modules/system_commands.py : SystemCommandExecutor.execute_command, and
   src/modules/safety_manager.py : SafetyManager.confirm_dangerous_action *)

MaxCallbacks == 2

\* self.dangerous_commands as __init__ sets it.
dangerous_commands ==
  <<<<"r", "m", " ", "-", "r", "f">>,
    <<"d", "e", "l", " ", "/", "s">>,
    <<"f", "o", "r", "m", "a", "t">>,
    <<"f", "d", "i", "s", "k">>,
    <<"d", "d", " ", "i", "f", "=">>,
    <<"s", "h", "u", "t", "d", "o", "w", "n">>,
    <<"r", "e", "b", "o", "o", "t">>,
    <<"h", "a", "l", "t">>,
    <<"p", "o", "w", "e", "r", "o", "f", "f">>,
    <<"i", "n", "i", "t", " ", "0">>,
    <<"i", "n", "i", "t", " ", "6">>,
    <<"s", "y", "s", "t", "e", "m", "c", "t", "l", " ", "p", "o", "w", "e", "r", "o", "f", "f">>,
    <<"s", "y", "s", "t", "e", "m", "c", "t", "l", " ", "r", "e", "b", "o", "o", "t">>,
    <<"t", "a", "s", "k", "k", "i", "l", "l", " ", "/", "f">>,
    <<"k", "i", "l", "l", " ", "-", "9">>,
    <<"k", "i", "l", "l", "a", "l", "l">>>>

\* The commands execute_command is called with.
ExecCommands ==
  {<<"l", "s">>,
   <<"S", "H", "U", "T", "D", "O", "W", "N">>,
   <<"K", "i", "l", "l", " ", "-", "9", " ", "1">>,
   <<"r", "m", " ", "-", "r", "f", " ", "x">>,
   <<"e", "c", "h", "o", " ", "h", "i">>,
   <<"r", "m", " ", " ", "-", "r", "f", " ", "x">>}

\* What a confirmation callback does when called: it returns True, False or
\* None, or it raises.
CallbackResults == {"True", "False", "None", "raises"}

\* What os.isatty(0) does: it returns True or False, or it raises.
TtyResults == {"True", "False", "raises"}

\* What subprocess.run does: the process exits with status 0 or another
\* status, runs into the timeout, or cannot be started.
RunResults == {"zero", "nonzero", "timeout", "raises"}

\* _is_interactive_mode() taking every session for a terminal.
IsInteractiveAlways(tty) == TRUE

\* _is_interactive_mode().
is_interactive_mode(tty) == tty = "True"

\* The for loop over self.confirmation_callbacks from index i on: the first
\* result that is not None, or "None" when the loop runs out.
RECURSIVE CallbackLoop(_, _)
CallbackLoop(callbacks, i) ==
  IF i > Len(callbacks) THEN "None"
  ELSE IF callbacks[i] \in {"True", "False"} THEN callbacks[i]
  ELSE CallbackLoop(callbacks, i + 1)

\* confirm_dangerous_action(action_description, force), given the config
\* flag, the terminal and the callbacks.
confirm_dangerous_action(flag, force, tty, callbacks) ==
  IF ~flag \/ force THEN TRUE
  ELSE IF ~is_interactive_mode(tty) THEN FALSE
  ELSE CallbackLoop(callbacks, 1) = "True"

\* is_dangerous_command searching the command as typed.
IsDangerousAsTyped(command) ==
  \E i \in DOMAIN dangerous_commands : Contains(command, dangerous_commands[i])

\* is_dangerous_command(command).
is_dangerous_command(command) ==
  \E i \in DOMAIN dangerous_commands :
    Contains(LowerStr(command), dangerous_commands[i])

\* What execute_command returns after subprocess.run.
RunReturn(run) ==
  CASE run = "zero" -> [success |-> TRUE, stderr |-> "stderr of the process"]
    [] run = "nonzero" -> [success |-> FALSE, stderr |-> "stderr of the process"]
    [] run = "timeout" -> [success |-> FALSE, stderr |-> "Command timed out"]
    [] OTHER -> [success |-> FALSE, stderr |-> "str(e)"]

\* execute_command(command, confirm_dangerous): whether confirmation was asked
\* and what it answered, whether subprocess.run was called, and the tuple
\* returned.
execute_command(command, confirm_dangerous, flag, tty, callbacks, run) ==
  LET asked == is_dangerous_command(command) /\ confirm_dangerous
      answer == confirm_dangerous_action(flag, FALSE, tty, callbacks)
  IN IF asked /\ ~answer
       THEN [asked |-> TRUE, answer |-> FALSE, spawned |-> FALSE,
             ret |-> [success |-> FALSE,
                      stderr |-> "Command execution cancelled by user"]]
       ELSE [asked |-> asked, answer |-> asked /\ answer, spawned |-> TRUE,
             ret |-> RunReturn(run)]

ExecInit ==
  /\ confirm_flag = TRUE
  /\ confirmation_callbacks = <<>>
  /\ exec_call = <<>>
  /\ confirm_call = <<>>

notExec == <<coreVars, bulkVars, guiVars, loopVars, tgVars, dupVars,
  actionLogVars>>

\* update_safety_config({'confirm_dangerous_actions': flag}).
UpdateConfirmFlag(flag) ==
  /\ exec_call = <<>> /\ confirm_call = <<>>
  /\ confirm_flag' = flag
  /\ UNCHANGED <<exec_call, confirm_call>>
  /\ UNCHANGED confirmation_callbacks
  /\ UNCHANGED notExec

\* add_confirmation_callback(callback).
AddConfirmationCallback(callback) ==
  /\ Len(confirmation_callbacks) < MaxCallbacks
  /\ exec_call = <<>> /\ confirm_call = <<>>
  /\ confirmation_callbacks' = Append(confirmation_callbacks, callback)
  /\ UNCHANGED <<exec_call, confirm_call>>
  /\ UNCHANGED confirm_flag
  /\ UNCHANGED notExec

\* Whether the caller has read the result of the call made before.
NoCallPending == exec_call = <<>> /\ confirm_call = <<>>

\* A call confirm_dangerous_action(description, force).
ConfirmDangerousAction(force, tty) ==
  /\ NoCallPending
  /\ confirm_call' =
       <<[force |-> force, tty |-> tty,
          ret |-> confirm_dangerous_action(confirm_flag, force, tty,
                                           confirmation_callbacks)]>>
  /\ UNCHANGED <<exec_call, confirm_flag, confirmation_callbacks>>
  /\ UNCHANGED notExec

\* A call execute_command(command, confirm_dangerous).
ExecuteCommand(command, confirm_dangerous, tty, run) ==
  /\ NoCallPending
  /\ exec_call' =
       <<[command |-> command, confirm_dangerous |-> confirm_dangerous,
          result |-> execute_command(command, confirm_dangerous, confirm_flag,
                                     tty, confirmation_callbacks, run)]>>
  /\ UNCHANGED <<confirm_call, confirm_flag, confirmation_callbacks>>
  /\ UNCHANGED notExec

\* The caller reads the result.
ExecResultRead ==
  /\ ~NoCallPending
  /\ exec_call' = <<>>
  /\ confirm_call' = <<>>
  /\ UNCHANGED <<confirm_flag, confirmation_callbacks>>
  /\ UNCHANGED notExec

ExecNext ==
  \/ ExecResultRead
  \/ \E flag \in BOOLEAN : UpdateConfirmFlag(flag)
  \/ \E callback \in CallbackResults : AddConfirmationCallback(callback)
  \/ \E force \in BOOLEAN, tty \in TtyResults : ConfirmDangerousAction(force, tty)
  \/ \E command \in ExecCommands, confirm_dangerous \in BOOLEAN,
        tty \in TtyResults, run \in RunResults :
       ExecuteCommand(command, confirm_dangerous, tty, run)

-----------------------------------------------------------------------------
(* src/gui_main.py : SciFiGUI, the background thread and its tasks.  self.tasks
   holds the two ids of TaskOrder, in that order, each with 'enabled' True;
   nothing in the GUI writes 'enabled'. *)

\* time.sleep(5) at the end of a pass of background_tasks, and the 30 seconds
\* of run_scheduled_tasks.
GuiSleepSecs == 5
GuiPeriod == 30
\* Ages of last_run_<id> are counted up to MaxGuiAge seconds.
MaxGuiAge == 35

GuiStatuses == {"Ready", "Running", "Completed", "Error"}

GuiInit ==
  /\ agent_running = FALSE
  /\ gui_status = [t \in TaskIds |-> "Ready"]
  /\ gui_last = [t \in TaskIds |-> Unset]
  /\ gui_pc = "none"
  /\ gui_idx = 1

notGui == <<coreVars, bulkVars, execVars, loopVars, tgVars, dupVars,
  actionLogVars>>

\* Seconds pass: the attributes last_run_<id> that exist grow older.
GuiElapse(last, d) ==
  [t \in TaskIds |->
     IF last[t] = Unset THEN Unset
     ELSE IF last[t] + d > MaxGuiAge THEN MaxGuiAge ELSE last[t] + d]

\* start_agent: the flag is set and the background thread started.
StartAgent ==
  /\ ~agent_running
  /\ gui_pc \in {"none", "exit"}
  /\ agent_running' = TRUE
  /\ gui_pc' = "loop"
  /\ UNCHANGED <<gui_status, gui_last, gui_idx>>
  /\ UNCHANGED notGui

\* stop_agent.
StopAgent ==
  /\ agent_running
  /\ agent_running' = FALSE
  /\ UNCHANGED <<gui_status, gui_last, gui_pc, gui_idx>>
  /\ UNCHANGED notGui

\* background_tasks: the test of the while loop, then update_system_status.
GuiLoop ==
  /\ gui_pc = "loop"
  /\ gui_pc' = IF agent_running THEN "tasks" ELSE "exit"
  /\ gui_idx' = 1
  /\ UNCHANGED <<agent_running, gui_status, gui_last>>
  /\ UNCHANGED notGui

\* Whether run_scheduled_tasks calls run_task for the task.
GuiDue(t) ==
  /\ gui_status[t] = "Ready"
  /\ gui_last[t] # Unset
  /\ gui_last[t] > GuiPeriod

\* run_scheduled_tasks: the for loop at one task.  run_task begins
\* (status 'Running'), or the attribute last_run_<id> is created, or the task
\* is passed over.
GuiConsider ==
  /\ gui_pc = "tasks"
  /\ gui_idx <= Len(TaskOrder)
  /\ LET t == TaskOrder[gui_idx] IN
       IF GuiDue(t)
         THEN /\ gui_status' = [gui_status EXCEPT ![t] = "Running"]
              /\ gui_pc' = "run"
              /\ UNCHANGED <<gui_last, gui_idx>>
         ELSE /\ gui_last' = IF gui_status[t] = "Ready" /\ gui_last[t] = Unset
                               THEN [gui_last EXCEPT ![t] = 0]
                               ELSE gui_last
              /\ gui_idx' = gui_idx + 1
              /\ UNCHANGED <<gui_status, gui_pc>>
  /\ UNCHANGED agent_running
  /\ UNCHANGED notGui

\* run_task from the task's work on: it completes and last_run_<id> is
\* written, or it raises and the status is 'Error'.
GuiTaskEnds(outcome) ==
  /\ gui_pc = "run"
  /\ LET t == TaskOrder[gui_idx] IN
       IF outcome = "returned"
         THEN /\ gui_status' = [gui_status EXCEPT ![t] = "Completed"]
              /\ gui_last' = [gui_last EXCEPT ![t] = 0]
         ELSE /\ gui_status' = [gui_status EXCEPT ![t] = "Error"]
              /\ UNCHANGED gui_last
  /\ gui_pc' = "tasks"
  /\ gui_idx' = gui_idx + 1
  /\ UNCHANGED agent_running
  /\ UNCHANGED notGui

\* The for loop is over: time.sleep(5), then the while test again.
GuiSleep ==
  /\ gui_pc = "tasks"
  /\ gui_idx > Len(TaskOrder)
  /\ gui_last' = GuiElapse(gui_last, GuiSleepSecs)
  /\ gui_pc' = "loop"
  /\ UNCHANGED <<agent_running, gui_status, gui_idx>>
  /\ UNCHANGED notGui

\* The background thread.
GuiThread ==
  \/ GuiLoop
  \/ GuiConsider
  \/ \E outcome \in Outcomes : GuiTaskEnds(outcome)
  \/ GuiSleep

GuiNext == StartAgent \/ StopAgent \/ GuiThread

-----------------------------------------------------------------------------
(* The polling loops and the threads that run them:
   ProcessMonitor.start_monitoring / stop_monitoring
   (src/modules/process_monitor.py) and
   VoiceCommandProcessor.start_continuous_listening / stop_continuous_listening
   (src/modules/voice_commands.py).  Both test a flag, set it and start a
   thread whose loop runs while the flag is set; one model stands for both.
   The join of stop_continuous_listening waits two seconds at most, a listen
   takes up to ten: stop may return before the thread has ended or after. *)

\* The threads a behaviour starts at most.
MaxLoopThreads == 3

LoopInit ==
  /\ loop_flag = FALSE
  /\ loop_threads = <<>>

notLoop == <<coreVars, bulkVars, execVars, guiVars, tgVars, dupVars,
  actionLogVars>>

\* start_monitoring / start_continuous_listening: nothing when the flag is
\* set; otherwise the flag is set and a thread started.
StartLoop ==
  /\ Len(loop_threads) < MaxLoopThreads
  /\ IF loop_flag
       THEN UNCHANGED <<loop_flag, loop_threads>>
       ELSE /\ loop_flag' = TRUE
            /\ loop_threads' = Append(loop_threads, "loop")
  /\ UNCHANGED notLoop

\* stop_monitoring / stop_continuous_listening: the flag is cleared.
StopLoop ==
  /\ loop_flag' = FALSE
  /\ UNCHANGED loop_threads
  /\ UNCHANGED notLoop

\* "while self.monitoring:" / "while self.is_listening:" in thread i.
LoopTest(i) ==
  /\ loop_threads[i] = "loop"
  /\ loop_threads' = [loop_threads EXCEPT ![i] = IF loop_flag THEN "body" ELSE "exit"]
  /\ UNCHANGED loop_flag
  /\ UNCHANGED notLoop

\* The try body of thread i up to its sleep, or into the except clause.
LoopBody(i, outcome) ==
  /\ loop_threads[i] = "body"
  /\ loop_threads' = [loop_threads EXCEPT
                        ![i] = IF outcome = "returned" THEN "sleep" ELSE "sleep_err"]
  /\ UNCHANGED loop_flag
  /\ UNCHANGED notLoop

\* The time.sleep of thread i ends.
LoopSleep(i) ==
  /\ loop_threads[i] \in {"sleep", "sleep_err"}
  /\ loop_threads' = [loop_threads EXCEPT ![i] = "loop"]
  /\ UNCHANGED loop_flag
  /\ UNCHANGED notLoop

LoopNext ==
  \/ StartLoop
  \/ StopLoop
  \/ \E i \in 1..MaxLoopThreads : i \in DOMAIN loop_threads /\ LoopTest(i)
  \/ \E i \in 1..MaxLoopThreads, outcome \in Outcomes :
       i \in DOMAIN loop_threads /\ LoopBody(i, outcome)
  \/ \E i \in 1..MaxLoopThreads : i \in DOMAIN loop_threads /\ LoopSleep(i)

-----------------------------------------------------------------------------
(* src/modules/telegram_automation.py : TelegramAutomation.start_bot_polling,
   check_and_auto_reply and get_updates.  The Bot API's getUpdates returns the
   updates not yet confirmed whose update_id is at least the offset asked for,
   and confirms those below it. *)

\* The updates that arrive at most, with update_id 1..MaxUpdates, and the
\* number up to which the auto-replies to one update are counted.
MaxUpdates == 3
MaxReplies == 2

TgInit ==
  /\ tg_pending = {}
  /\ tg_arrived = 0
  /\ tg_last_update_id = 0
  /\ tg_offsets = <<>>
  /\ tg_replies = [u \in 1..MaxUpdates |-> 0]
  /\ tg_pc = "poll"

notTg == <<coreVars, bulkVars, execVars, guiVars, loopVars, dupVars,
  actionLogVars>>

\* A message reaches the bot: an update with the next update_id, whose text
\* matches an auto-reply rule or none.
TgArrive(matches) ==
  /\ tg_arrived < MaxUpdates
  /\ tg_arrived' = tg_arrived + 1
  /\ tg_pending' = tg_pending \cup {[update_id |-> tg_arrived + 1, matches |-> matches]}
  /\ UNCHANGED <<tg_last_update_id, tg_offsets, tg_replies, tg_pc>>
  /\ UNCHANGED notTg

\* What the server answers to getUpdates with the offset, and what it keeps.
Returned(pending, offset) == {u \in pending : u.update_id >= offset}

\* get_updates(offset): the list the server returned, or [] on an error.
get_updates(pending, offset, ok) == IF ok THEN Returned(pending, offset) ELSE {}

\* The auto-replies after the for loop of check_and_auto_reply over updates.
RepliesAfter(replies, updates) ==
  [u \in DOMAIN replies |->
     IF /\ \E x \in updates : x.update_id = u /\ x.matches
        /\ replies[u] < MaxReplies
       THEN replies[u] + 1
       ELSE replies[u]]

\* The value poll_updates holds in last_update_id after the call: the
\* parameter of check_and_auto_reply is a local of its own, and the call
\* returns replied_count.
LastUpdateIdAfter(last, updates) == last

\* One pass of the loop of poll_updates up to its sleep:
\* check_and_auto_reply(last_update_id).
TgPoll(ok) ==
  /\ tg_pc = "poll"
  /\ LET offset == tg_last_update_id + 1
         updates == get_updates(tg_pending, offset, ok)
     IN /\ tg_offsets' = <<offset>>
        /\ tg_pending' = Returned(tg_pending, offset)
        /\ tg_replies' = RepliesAfter(tg_replies, updates)
        /\ tg_last_update_id' = LastUpdateIdAfter(tg_last_update_id, updates)
  /\ tg_pc' = "sleep"
  /\ UNCHANGED tg_arrived
  /\ UNCHANGED notTg

\* time.sleep(interval).
TgSleep ==
  /\ tg_pc = "sleep"
  /\ tg_pc' = "poll"
  /\ UNCHANGED <<tg_pending, tg_arrived, tg_last_update_id, tg_offsets, tg_replies>>
  /\ UNCHANGED notTg

TgNext ==
  \/ \E matches \in BOOLEAN : TgArrive(matches)
  \/ \E ok \in BOOLEAN : TgPoll(ok)
  \/ TgSleep

-----------------------------------------------------------------------------
(* src/modules/file_manager.py : FileManager.find_duplicates and
   get_file_hash.  A directory is the list of its files in the order
   find_files returns them; a file is its position in the list, and what it
   holds is its content or the fact that it cannot be read. *)

MaxFiles == 3

Unreadable == "unreadable"
FileContents == {"x", "y", Unreadable}
Directories == UNION {[1..n -> FileContents] : n \in 0..MaxFiles}

\* hashlib's md5 hexdigest of a content.
HexDigest(content) ==
  IF content = "x" THEN "9dd4e461268c8034f5c8564e155c67a6"
                   ELSE "415290769594460e2e485922904f345d"

\* get_file_hash(file_path): the digest, or "" when reading the file raised.
get_file_hash(content) ==
  IF content = Unreadable THEN "" ELSE HexDigest(content)

\* A dict with key k set to v.
DictSet(d, k, v) == [x \in DOMAIN d \cup {k} |-> IF x = k THEN v ELSE d[x]]

NoDup ==
  [pc |-> "none", files |-> <<>>, i |-> 1, file_hashes |-> <<>>,
   duplicates |-> <<>>]

DupInit == dup = NoDup

notDup == <<coreVars, bulkVars, execVars, guiVars, loopVars, tgVars,
  actionLogVars>>

\* The body of the for loop of find_duplicates for the file at path.
DupStep(d, path) ==
  LET file_hash == get_file_hash(d.files[path]) IN
    IF file_hash \in DOMAIN d.file_hashes
      THEN LET group == IF file_hash \in DOMAIN d.duplicates
                          THEN d.duplicates[file_hash]
                          ELSE <<d.file_hashes[file_hash]>>
           IN [d EXCEPT !.duplicates = DictSet(@, file_hash, Append(group, path)),
                        !.i = path + 1]
      ELSE [d EXCEPT !.file_hashes = DictSet(@, file_hash, path),
                     !.i = path + 1]

\* find_duplicates(directory) up to its for loop.
FindDuplicates(files) ==
  /\ dup.pc \in {"none", "returned"}
  /\ dup' = [pc |-> "loop", files |-> files, i |-> 1, file_hashes |-> <<>>,
             duplicates |-> <<>>]
  /\ UNCHANGED notDup

DupIteration ==
  /\ dup.pc = "loop"
  /\ dup.i <= Len(dup.files)
  /\ dup' = DupStep(dup, dup.i)
  /\ UNCHANGED notDup

DupReturn ==
  /\ dup.pc = "loop"
  /\ dup.i > Len(dup.files)
  /\ dup' = [dup EXCEPT !.pc = "returned"]
  /\ UNCHANGED notDup

DupNext ==
  \/ \E files \in Directories : FindDuplicates(files)
  \/ DupIteration
  \/ DupReturn

-----------------------------------------------------------------------------
(* src/modules/safety_manager.py : SafetyManager._log_action and the action
   log.  An entry of the log is the number of the logged action, counted from
   1 in the order of logging; it stands for the entry's timestamp. *)

\* "if len(self.action_log) > 1000".
LogLimit == 1000
\* The actions a behaviour logs at most.
MaxLogged == 1003

ActionLogInit ==
  /\ action_log = <<>>
  /\ logged = 0
  /\ log_all_actions = TRUE

notActionLog == <<coreVars, bulkVars, execVars, guiVars, loopVars, tgVars, dupVars>>

\* "self.action_log[-1000:]" keeping the first entries instead of the last.
KeepFirst(log) == SubSeq(log, 1, LogLimit)

\* "self.action_log[-1000:]".
KeepLast(log) == SubSeq(log, Len(log) - LogLimit + 1, Len(log))

\* _log_action: the log after the call that logs entry.
log_action(log, flag, entry) ==
  IF ~flag THEN log
  ELSE LET appended == Append(log, entry)
       IN IF Len(appended) > LogLimit THEN KeepLast(appended) ELSE appended

\* A call _log_action(action_type, description).
LogAction ==
  /\ logged < MaxLogged
  /\ action_log' = log_action(action_log, log_all_actions, logged + 1)
  /\ logged' = IF log_all_actions THEN logged + 1 ELSE logged
  /\ UNCHANGED log_all_actions
  /\ UNCHANGED notActionLog

\* quarantine_file(file_path): the action is logged once the file has been
\* moved; a missing file or a failed move logs nothing.
QuarantineFile(moved) ==
  /\ logged < MaxLogged
  /\ action_log' = IF moved
                     THEN log_action(action_log, log_all_actions, logged + 1)
                     ELSE action_log
  /\ logged' = IF moved /\ log_all_actions THEN logged + 1 ELSE logged
  /\ UNCHANGED log_all_actions
  /\ UNCHANGED notActionLog

\* update_safety_config({'log_all_actions': flag}).
SetLogAllActions(flag) ==
  /\ log_all_actions' = flag
  /\ UNCHANGED <<action_log, logged>>
  /\ UNCHANGED notActionLog

ActionLogNext ==
  \/ LogAction
  \/ \E moved \in BOOLEAN : QuarantineFile(moved)
  \/ \E flag \in BOOLEAN : SetLogAllActions(flag)

----------------------------------------------------------------------------
(* Specifications *)

\* The agent and its modules after construction; the configuration file is
\* absent or holds one of InitialConfigs.
Constructed ==
  /\ AgentInit /\ HealthInit /\ SafetyInit /\ ConfigInit
  /\ VoiceInit /\ EmailInit /\ CliInit /\ ViewInit
  /\ BulkInit
  /\ ExecInit
  /\ GuiInit
  /\ LoopInit
  /\ TgInit
  /\ DupInit
  /\ ActionLogInit

\* Every task registered with a schedule string, as register_default_tasks does.
DefaultTasks == \A t \in TaskIds : Truthy(schedule[t])

Init ==
  /\ Constructed
  /\ config = {}
  /\ DOMAIN cli_tasks = {<<"c", "l", "e", "a", "n", "u", "p", "_", "t", "e", "m", "p", "_", "f", "i", "l", "e", "s">>}

\* The scheduler thread and the prompt thread.
Next == Scheduler \/ Prompt

Spec == Init /\ [][Next]_vars

\* The two background loops and the shutdown: the monitoring thread shares
\* only self.running with the rest.
LoopsNext == Scheduler \/ Monitor \/ PromptQuit

LoopsSpec == Init /\ [][LoopsNext]_vars

\* The behaviours in which the agent stays running, every task has a
\* schedule, only the scheduler runs tasks and every callback returns; the
\* scheduler thread is scheduled fairly: its callbacks end and its sleeps end.
SchedulerReturning ==
  \/ SchedLoop
  \/ SchedConsider
  \/ SchedCall
  \/ \E d \in CallDurations : SchedCallbackEnds("returned", d)
  \/ SchedSleep

PromptToggles ==
  \/ \E t \in TaskIds : PromptEnable(t)
  \/ \E t \in TaskIds : PromptDisable(t)

FairNext == SchedulerReturning \/ PromptToggles

DefaultInit == Init /\ DefaultTasks

FairSpec == DefaultInit /\ [][FairNext]_vars /\ WF_vars(SchedulerReturning)

\* The modules on their own, beside an agent with its default tasks.
\* Shutdown: the background loops of the agent and an email monitor started
\* while the agent runs, each thread scheduled fairly, and the quit command.
ShutdownNext ==
  \/ Scheduler
  \/ Monitor
  \/ Voice
  \/ (running /\ StartEmailMonitoring)
  \/ Email
  \/ PromptQuit

ShutdownSpec ==
  /\ DefaultInit
  /\ [][ShutdownNext]_vars
  /\ WF_vars(Scheduler)
  /\ WF_vars(Monitor)
  /\ WF_vars(Voice)
  /\ WF_vars(Email)

\* The prompt's commands on each of the registries.
CliLoaded ==
  /\ Constructed
  /\ DefaultTasks
  /\ config = {}

CliSpec == CliLoaded /\ [][CliNext]_vars

AlertsSpec == DefaultInit /\ [][AlertsNext]_vars

HealthSpec == DefaultInit /\ [][HealthNext]_vars

SafetySpec == DefaultInit /\ [][SafetyNext]_vars

ConfigLoaded ==
  /\ Constructed
  /\ DefaultTasks
  /\ DOMAIN cli_tasks = {<<"c", "l", "e", "a", "n", "u", "p", "_", "t", "e", "m", "p", "_", "f", "i", "l", "e", "s">>}

ConfigSpec == ConfigLoaded /\ [][ConfigNext]_vars

ConfigOpsSpec == ConfigLoaded /\ [][ConfigOpsNext]_vars

ConfigFileSpec == ConfigLoaded /\ [][ConfigFileNext]_vars

BulkSpec == DefaultInit /\ [][BulkNext]_vars

ExecSpec == DefaultInit /\ [][ExecNext]_vars

PollSpec == DefaultInit /\ [][LoopNext]_vars

TgSpec == DefaultInit /\ [][TgNext]_vars

DupSpec == DefaultInit /\ [][DupNext]_vars

ActionLogSpec == DefaultInit /\ [][ActionLogNext]_vars

\* The GUI with its background thread scheduled fairly.
GuiSpec == DefaultInit /\ [][GuiNext]_vars /\ WF_vars(GuiThread)

----------------------------------------------------------------------------
(* Properties of the scheduler (src/main.py) *)

\* The step on which the scheduler thread invokes the callback of task t.
SchedInvokes(t) ==
  /\ sched_pc = "call"
  /\ sched_pc' = "callback"
  /\ TaskOrder[sched_idx] = t

\* C1: in every interleaving with the prompt's enable/disable commands, the
\* scheduler never invokes the callback of a task whose enabled flag is False
\* at the moment of the invocation.
C1_NeverInvokesDisabled ==
  [][\A t \in TaskIds : SchedInvokes(t) => enabled[t]]_vars

\* C2: after any run of a task's callback (by the scheduler or by "run <id>",
\* returned or raised) the scheduler does not invoke that callback again
\* until 300 seconds have passed since that run.
C2_CooldownAfterAnyRun ==
  [][\A t \in TaskIds :
       SchedInvokes(t) => (since_end[t] = Unset \/ since_end[t] >= CooldownSecs)]_vars

\* Eligibility as the specification words it: enabled, and never run or
\* run more than the cooldown ago; the schedule string plays no part.
StatedEligible(t) ==
  enabled[t] /\ (last_run[t] = Unset \/ last_run[t] > CooldownSecs)

\* C3: on each tick the scheduler invokes exactly the registered tasks that
\* are enabled and have last_run unset or now - last_run > 300 seconds, for
\* every elapsed time and whatever the schedule string.
C3_InvokedIffStatedEligible ==
  [][(sched_pc = "consider" /\ schedVars' # schedVars) =>
       ((sched_pc' = "call") <=> StatedEligible(TaskOrder[sched_idx]))]_vars

\* C4: a callback that raises during a tick is caught and logged by
\* execute_task: the exception never reaches the loop's handler, the for loop
\* still reaches every other task of the tick, and the loop goes on.
C4_RaiseDoesNotStopTick ==
  /\ sched_pc \notin {"sleep_err", "dead"}
  /\ (sched_pc = "sleep" /\ tick_raised # {}) => tick_considered = TaskIds

\* A tick in which the first task raised and the second was invoked after it.
C4_Witness ==
  /\ sched_pc = "sleep"
  /\ TaskOrder[1] \in tick_raised
  /\ TaskOrder[2] \in tick_invoked

\* The clock of the model is not at its bound when the scheduler sleeps.
TimeFlows ==
  sched_pc \in {"sleep", "sleep_err"} =>
    TrackedAll([u \in TaskIds |-> Elapse(last_run[u], SchedulerSleep)])

\* C5: while the agent stays running and every callback returns, every
\* registered task that stays enabled is invoked by the scheduler again and
\* again (infinitely often under fair scheduling of the loop thread).
C5_EnabledTaskRunsInfinitelyOften ==
  \A t \in TaskIds :
    ([]enabled[t] /\ []TimeFlows) =>
       []<>(sched_pc = "callback" /\ TaskOrder[sched_idx] = t)

\* C10: an exception in one iteration of a background loop, or in a task,
\* ends neither loop: while the agent runs neither thread is dead or has left
\* its loop, and a raise in one thread leaves the other where it was.
C10_LoopsSurviveExceptions ==
  /\ mon_pc # "dead" /\ sched_pc # "dead"
  /\ running => (mon_pc # "exit" /\ sched_pc # "exit")

\* The monitor loop is in its handler after a raise while the scheduler, one
\* of whose tasks has raised in this tick, is in the callback of another.
C10_Witness ==
  /\ running
  /\ mon_pc = "sleep_err"
  /\ sched_pc = "callback"
  /\ tick_raised # {}

\* The prompt thread stores last_run: "task.last_run = datetime.now()" of
\* execute_task, reached through run_task_manual.
PromptWritesLastRun == PromptCallbackEnds("returned")

\* The prompt thread stores the enabled flag, which the scheduler reads.
PromptWritesEnabled ==
  \E t \in TaskIds : PromptEnable(t) \/ PromptDisable(t)

\* C12: last_run is the only task state written by one thread while another
\* reads it, and only the scheduler thread writes it: no step of another
\* thread stores last_run, and no thread stores the enabled flag that
\* another thread reads.
C12_OnlySchedulerWritesTaskState ==
  [][~PromptWritesLastRun /\ ~PromptWritesEnabled]_vars

\* C13: every execution of a task, by the scheduler or by "run <id>", with
\* a callback that returns or raises, stores the time of the execution in
\* the task's last_run: when execute_task ends, last_run is the current time.
C13_EveryExecutionStoresLastRun ==
  [][/\ (sched_pc = "callback" /\ sched_pc' # "callback")
          => last_run'[TaskOrder[sched_idx]] = 0
     /\ (prompt_pc = "callback" /\ prompt_pc' = "prompt")
          => last_run'[prompt_task] = 0]_vars

\* Every background loop that was started has left its loop.
AllLoopsExited ==
  /\ sched_pc = "exit"
  /\ mon_pc = "exit"
  /\ voice_pc = "exit"
  /\ email_pc \in {"none", "exit"}

C11_FlaggedLoopsExit ==
  []TimeFlows =>
    ((~running) ~> (sched_pc = "exit" /\ mon_pc = "exit" /\ voice_pc = "exit"))

----------------------------------------------------------------------------
(* Properties of ProcessMonitor (src/modules/process_monitor.py) *)

\* The alerts of metric m's type that the tick p appended.
TickAlerts(m, p) ==
  Cardinality({i \in DOMAIN alerts :
                 alerts[i].timestamp = p /\ alerts[i].alert_type = AlertType(m)})

\* The readings of this tick's samples of m that are above their threshold.
Above(m) ==
  {j \in DOMAIN sampled[m] : sampled[m][j].value > sampled[m][j].threshold}

\* C6 as stated: a check_system_health call appends exactly one alert of its
\* type for every metric type whose sample exceeds its threshold, and none
\* for a metric that does not exceed it.
C6_OneAlertPerMetricType ==
  pm_pc = "sleep" =>
    \A m \in Metrics : TickAlerts(m, poll) = IF Above(m) # {} THEN 1 ELSE 0

\* C6 as amended: a check_system_health call appends exactly one alert for
\* every reading above its threshold: one for each of CPU, memory, disk and
\* process count, and one for each temperature sensor entry whose reading is
\* not zero; it appends no alert for any other reading.
C6_OneAlertPerBreachingReading ==
  pm_pc = "sleep" =>
    \A m \in Metrics :
      TickAlerts(m, poll) =
        Cardinality({j \in Above(m) :
                       m = "temperature" => sampled[m][j].value # 0})

\* A tick that read the CPU and the memory above their thresholds, the disk
\* below its threshold and two sensor entries above theirs.
C6_Witness ==
  /\ pm_pc = "sleep"
  /\ TickAlerts("cpu_percent", poll) = 1
  /\ TickAlerts("memory_percent", poll) = 1
  /\ sampled["disk_percent"] # <<>>
  /\ TickAlerts("disk_percent", poll) = 0
  /\ TickAlerts("temperature", poll) = 2
  /\ sampled["process_count"] # <<>>

\* C7 as stated: a metric above its threshold for k consecutive ticks has k
\* alerts of its type from those ticks, one per tick, whatever is recorded.
C7_OneAlertPerTickOfStreak ==
  pm_pc = "sleep" =>
    \A m \in Metrics :
      \A i \in 1..Len(streak[m]) :
        TickAlerts(m, poll - Len(streak[m]) + i) = 1

\* C7 as amended: alerts are not deduplicated across ticks: each of the k
\* consecutive ticks that read a metric above its threshold has appended its
\* own alerts, whatever was recorded before: one for CPU, memory, disk and
\* process count (k in all), and for temperature one per sensor entry whose
\* reading is above the threshold and not zero.
C7_EveryTickOfStreakAlerts ==
  pm_pc = "sleep" =>
    \A m \in Metrics :
      \A i \in 1..Len(streak[m]) :
        TickAlerts(m, poll - Len(streak[m]) + i) = streak[m][i]

\* The second of two consecutive ticks that read the CPU and the temperature
\* above their thresholds, with the alerts of the first tick on the list.
C7_Witness ==
  /\ pm_pc = "sleep"
  /\ poll = 2
  /\ Len(streak["cpu_percent"]) = 2
  /\ Len(streak["temperature"]) = 2
  /\ TickAlerts("cpu_percent", 1) = 1
  /\ TickAlerts("cpu_percent", 2) = 1

\* C15: alerts never expire: a step that is not clear_alerts keeps every
\* alert of the list in its place (create_alert only appends), and get_alerts
\* leaves the list as it was, returning a filtered copy.
C15_AlertsNeverExpire ==
  [][/\ \/ ClearAlerts
        \/ /\ Len(alerts') >= Len(alerts)
           /\ SubSeq(alerts', 1, Len(alerts)) = alerts
     /\ (\E severity \in SeverityFilters, hours \in Windows :
           GetAlerts(severity, hours)) => alerts' = alerts]_vars

\* get_alerts has returned fewer alerts than the list holds, which still
\* holds the alerts of both ticks, oldest first.
C15_Witness ==
  /\ alerts_view # <<>>
  /\ Len(alerts_view[1].returned) < Len(alerts)
  /\ alerts_view[1].returned # <<>>
  /\ alerts[1].timestamp = 1
  /\ alerts[Len(alerts)].timestamp = 2

----------------------------------------------------------------------------
(* Properties of SafetyManager (src/modules/safety_manager.py) *)

\* The upper-case form of a character.
Upper(c) ==
  IF \E i \in DOMAIN LowerAlphabet : LowerAlphabet[i] = c
    THEN UpperAlphabet[CHOOSE i \in DOMAIN LowerAlphabet : LowerAlphabet[i] = c]
    ELSE c

\* The command contains the entry when letter case is ignored.
ContainsIgnoringCase(command, entry) ==
  \E off \in 0..(Len(command) - Len(entry)) :
    \A j \in 1..Len(entry) : Upper(command[off + j]) = Upper(entry[j])

\* C8: for every command and every configured blocklist, a command that
\* contains a blocked substring, compared case-insensitively, gets a result
\* with safe = False and blocked = True.
C8_BlockedSubstringDenied ==
  \A i \in DOMAIN safety_call :
    LET call == safety_call[i] IN
      (\E k \in DOMAIN call.blocklist :
          /\ call.blocklist[k] # NotAString
          /\ ContainsIgnoringCase(call.command, call.blocklist[k]))
        => (call.result.safe = FALSE /\ call.result.blocked = TRUE)

\* A blocklist installed by update_safety_config whose entry has capitals
\* denies a command that spells the entry in another case.
C8_Witness ==
  /\ safety_call # <<>>
  /\ safety_call[1].blocklist = <<<<"F", "o", "r", "M", "a", "t">>>>
  /\ safety_call[1].command = <<"l", "s", "F", "O", "R", "M", "A", "T">>
  /\ safety_call[1].result.blocked = TRUE
  /\ safety_call[1].result.safe = FALSE

----------------------------------------------------------------------------
(* Properties of ConfigManager (src/modules/config_manager.py) *)

\* The latest set call.
LastSet == config_set[1]

\* C9 as stated: whatever the document held, get(key) after set(key, value)
\* returns value.
C9_SetThenGet ==
  (config_set # <<>> /\ config_get # <<>> /\ config_get[1].key = LastSet.key)
    => config_get[1].ret = LastSet.value

\* C9 as amended: whatever the document held, whenever set(key, value)
\* returns True, get(key) after it returns value.
C9_SuccessfulSetThenGet ==
  (config_set # <<>> /\ config_get # <<>> /\ config_get[1].key = LastSet.key
     /\ LastSet.ret = TRUE)
    => config_get[1].ret = LastSet.value

\* A set of a three-segment key that replaced what the document held there
\* and returned True, and the get of that key after it.
C9_Witness ==
  /\ config_set # <<>>
  /\ config_get # <<>>
  /\ LastSet.key = <<"a", ".", "b", ".", "a">>
  /\ LastSet.ret = TRUE
  /\ LastSet.value = Scalar("s2")
  /\ config_get[1].key = LastSet.key
  /\ config_get[1].ret = Scalar("s2")

\* Whether the dotted path leads to a value: every segment before the last
\* names a dict, and the last names a key of it.
Resolvable(doc, keys) ==
  \A i \in 1..Len(keys) :
    /\ NodeAt(doc, Prefix(keys, i - 1)).kind = "dict"
    /\ NodeAt(doc, Prefix(keys, i)).kind # "absent"

\* Whether the dotted path passes through a value that is not a dict.
PassesThroughNonDict(doc, keys) ==
  \E i \in 1..(Len(keys) - 1) :
    NodeAt(doc, Prefix(keys, i)).kind \notin {"dict", "absent"}

\* C17: a get, set or delete that cannot be carried out (the path passes
\* through a value that is not a dictionary, or the key to get or delete is
\* absent) returns its sentinel, the default for get and False for set and
\* delete, and whenever one of them returns the sentinel of failure the
\* document is exactly what it was before the call; get never changes it.
\* (A step that changes config_set is a set call, one that leaves config_del
\* or config_get non-empty is that call.)
C17_FailedOperationChangesNothing ==
  [][/\ config_set' # config_set =>
          /\ PassesThroughNonDict(config, Split(config_set'[1].key))
               => ~config_set'[1].ret
          /\ ~config_set'[1].ret => config' = config
     /\ config_del' # <<>> =>
          /\ ~Resolvable(config, Split(config_del'[1].key))
               => ~config_del'[1].ret
          /\ ~config_del'[1].ret => config' = config
     /\ config_get' # <<>> =>
          /\ ~Resolvable(config, Split(config_get'[1].key))
               => config_get'[1].ret = NoneValue
          /\ config' = config]_vars

\* A delete of an absent key below an existing dict has returned False after
\* a set through a scalar returned False, the document holding other values.
C17_Witness ==
  /\ config_del # <<>>
  /\ ~config_del[1].ret
  /\ config_del[1].key = <<"a", ".", "b", ".", "a">>
  /\ NodeAt(config, <<<<"a">>>>).kind = "dict"
  /\ config_set # <<>>
  /\ ~LastSet.ret
  /\ config # {}

\* C24: a value stored with set stays retrievable: after a set(key, value)
\* that returned True, a get(key) made after any sequence of get, save_config
\* and load_config calls, and before any other set, returns that value.
C24_StoredValueStaysRetrievable ==
  (/\ config_set # <<>>
   /\ config_set[1].ret
   /\ config_get # <<>>
   /\ config_get[1].key = config_set[1].key)
    => config_get[1].ret = config_set[1].value

\* What holds: a value set and then saved before any load stays retrievable;
\* stated on the file, every load leaves in memory what the file holds.
C24_LoadReadsTheFile ==
  [][ConfigLoad => config' = config_file]_vars

----------------------------------------------------------------------------
(* Properties of the command line (src/main.py) *)

\* C14: for every task id of the registry, whatever its letter case or
\* spacing, "run <id>", "enable <id>" and "disable <id>" act on exactly that
\* task: it is executed, its enabled flag is set, or its flag is cleared, and
\* no other task is touched.
C14_CommandActsOnNamedTask ==
  \A i \in DOMAIN cli_last :
    LET c == cli_last[i] IN
      /\ c.verb = "run" => (c.executed = c.id /\ cli_tasks = c.before)
      /\ c.verb = "enable" =>
           (c.executed = NoTask /\ cli_tasks = [c.before EXCEPT ![c.id] = TRUE])
      /\ c.verb = "disable" =>
           (c.executed = NoTask /\ cli_tasks = [c.before EXCEPT ![c.id] = FALSE])

-----------------------------------------------------------------------------
(* Properties of the bulk-send helpers *)

\* How many times recipient r occurs in list l.
Occurrences(l, r) == Cardinality({j \in DOMAIN l : l[j] = r})

\* C16: the tallies a bulk send returns partition the recipient list: every
\* recipient occurs in 'success' and 'failed' together exactly as often as in
\* the list, len(success) + len(failed) = total = the number of recipients,
\* and every recipient was attempted, whatever the earlier sends did.
C16_TalliesPartitionRecipients ==
  bulk.pc = "returned" =>
    /\ bulk.total = Len(bulk.recipients)
    /\ Len(bulk.success) + Len(bulk.failed) = bulk.total
    /\ \A r \in {"ann", "bob"} :
         Occurrences(bulk.success, r) + Occurrences(bulk.failed, r)
           = Occurrences(bulk.recipients, r)
    /\ Len(bulk.attempts) = Len(bulk.recipients)

\* The same for the calls whose delay time.sleep accepts.
C16_PartitionWhenSleepReturns ==
  (bulk.pc = "returned" /\ bulk.delay.sleeps) =>
    /\ Len(bulk.success) + Len(bulk.failed) = bulk.total
    /\ \A r \in {"ann", "bob"} :
         Occurrences(bulk.success, r) + Occurrences(bulk.failed, r)
           = Occurrences(bulk.recipients, r)
    /\ Len(bulk.attempts) = Len(bulk.recipients)

-----------------------------------------------------------------------------
(* Properties of execute_command and confirm_dangerous_action *)

\* Whether the command contains one of the dangerous patterns, whatever the
\* letter case.
ContainsDangerousPattern(command) ==
  \E i \in DOMAIN dangerous_commands :
    ContainsIgnoringCase(command, dangerous_commands[i])

\* C18: execute_command called with confirm_dangerous=True calls
\* subprocess.run for a command that contains a dangerous pattern, compared
\* case-insensitively, only if confirm_dangerous_action returned True for it;
\* when the confirmation is refused it returns
\* (False, "", "Command execution cancelled by user") and runs nothing.
C18_DangerousCommandNeedsConfirmation ==
  (/\ exec_call # <<>>
   /\ exec_call[1].confirm_dangerous
   /\ ContainsDangerousPattern(exec_call[1].command))
    => /\ exec_call[1].result.asked
       /\ exec_call[1].result.spawned => exec_call[1].result.answer
       /\ ~exec_call[1].result.answer =>
            /\ ~exec_call[1].result.spawned
            /\ exec_call[1].result.ret =
                 [success |-> FALSE,
                  stderr |-> "Command execution cancelled by user"]

\* A dangerous command typed in capitals was refused on a terminal whose
\* second callback said no.
C18_Witness ==
  /\ exec_call # <<>>
  /\ exec_call[1].command = <<"S", "H", "U", "T", "D", "O", "W", "N">>
  /\ exec_call[1].confirm_dangerous
  /\ confirmation_callbacks = <<"raises", "False">>
  /\ ~exec_call[1].result.spawned
  /\ exec_call[1].result.ret.stderr = "Command execution cancelled by user"

\* The cases in which the claim lets confirm_dangerous_action return True.
MayConfirm(flag, force, tty, callbacks) ==
  \/ ~flag
  \/ force
  \/ /\ tty = "True"
     /\ \E i \in DOMAIN callbacks :
          /\ callbacks[i] = "True"
          /\ \A j \in 1..(i - 1) : callbacks[j] \in {"None", "raises"}

\* C19: confirm_dangerous_action returns True when confirmation is disabled
\* in the safety config, or force is True, or the session is interactive and
\* the first callback that returns a value other than None returned True; in
\* every other case it returns False.
C19_DeniesByDefault ==
  confirm_call # <<>> =>
    confirm_call[1].ret =
      MayConfirm(confirm_flag, confirm_call[1].force, confirm_call[1].tty,
                 confirmation_callbacks)

\* An interactive call was denied although a later callback would say yes, and
\* nothing forced or disabled the confirmation.
C19_Witness ==
  /\ confirm_call # <<>>
  /\ confirm_flag
  /\ ~confirm_call[1].force
  /\ confirm_call[1].tty = "True"
  /\ confirmation_callbacks = <<"False", "True">>
  /\ confirm_call[1].ret = FALSE

-----------------------------------------------------------------------------
(* Properties of the GUI's background loop (src/gui_main.py) *)

\* C20: while the GUI agent is running, every enabled task is run by the
\* background loop again and again: in every behaviour in which the agent
\* stays running from some moment on and the background thread is scheduled
\* fairly, every task is running infinitely often.
C20_GuiTaskRunsInfinitelyOften ==
  \A t \in TaskIds :
    (<>[]agent_running) => []<>(gui_status[t] = "Running")

\* What the loop does instead: a task that has been run once is never run
\* again.
C20_GuiTaskRunsAtMostOnce ==
  [][\A t \in TaskIds :
       gui_status[t] \in {"Completed", "Error"} => gui_status'[t] = gui_status[t]]_vars

-----------------------------------------------------------------------------
(* Properties of the agent's threads together (src/main.py) *)

\* C21: at no time are two invocations of the same task's callback in
\* progress at once: the scheduler thread and the prompt's "run <id>" are
\* never both inside the callback of one task.
C21_NoOverlappingInvocations ==
  \A t \in TaskIds :
    ~(/\ sched_pc = "callback"
      /\ TaskOrder[sched_idx] = t
      /\ prompt_pc = "callback"
      /\ prompt_task = t)

\* C27: once stop() has returned (self.running is False), the scheduler
\* begins no further callback invocation: it neither picks a task of the tick
\* in progress for execution nor invokes one.
C27_NoInvocationAfterStop ==
  [][~running =>
       /\ ~(sched_pc = "consider" /\ sched_pc' = "call")
       /\ \A t \in TaskIds : ~SchedInvokes(t)]_vars

\* What stop() does achieve: the scheduler begins no further tick.
C27_NoTickAfterStop ==
  [][~running => ~(sched_pc = "loop" /\ sched_pc' = "consider")]_vars

-----------------------------------------------------------------------------
(* Properties of the polling loops' threads *)

\* The threads whose loop has not ended.
ActiveLoops == {i \in DOMAIN loop_threads : loop_threads[i] # "exit"}

\* C22: after any sequence of start and stop calls at most one polling loop
\* thread is active: a start while one is running starts no second loop, and
\* a start after a stop never leaves the earlier loop running beside the new.
C22_AtMostOneLoopThread == Cardinality(ActiveLoops) <= 1

\* The part that holds: a start while the flag is set starts no thread.
C22_StartWhileRunningStartsNone ==
  [][loop_flag => Len(loop_threads') = Len(loop_threads)]_vars

-----------------------------------------------------------------------------
(* Properties of the Telegram polling loop *)

\* C23: under start_bot_polling each update is processed by at most one
\* poll, later polls asking only for higher update ids: no update triggers
\* more than one auto-reply.
C23_UpdateHandledOnce ==
  \A u \in 1..MaxUpdates : tg_replies[u] <= 1

\* What the loop asks for: every poll asks from update_id 1 on.
C23_EveryPollAsksFromOne ==
  tg_offsets # <<>> => tg_offsets[1] = 1

-----------------------------------------------------------------------------
(* Properties of find_duplicates *)

\* The files of the directory that hold the content.
FilesHolding(files, content) == {p \in DOMAIN files : files[p] = content}

\* The files a group of the result lists.
Listed(group) == {group[j] : j \in DOMAIN group}

\* C25: find_duplicates returns, for each content shared by two or more files,
\* exactly one group listing all of those files, lists no file whose content
\* is not shared, and never reports a file whose hash cannot be computed.
C25_GroupsAreTheSharedContents ==
  dup.pc = "returned" =>
    /\ \A content \in FileContents \ {Unreadable} :
         IF Cardinality(FilesHolding(dup.files, content)) >= 2
           THEN /\ HexDigest(content) \in DOMAIN dup.duplicates
                /\ Listed(dup.duplicates[HexDigest(content)])
                     = FilesHolding(dup.files, content)
                /\ Len(dup.duplicates[HexDigest(content)])
                     = Cardinality(FilesHolding(dup.files, content))
           ELSE HexDigest(content) \notin DOMAIN dup.duplicates
    /\ \A h \in DOMAIN dup.duplicates :
         \A p \in Listed(dup.duplicates[h]) : dup.files[p] # Unreadable

\* The same for the files that can be read.
C25_ReadableGroupsAreRight ==
  dup.pc = "returned" =>
    \A content \in FileContents \ {Unreadable} :
      IF Cardinality(FilesHolding(dup.files, content)) >= 2
        THEN /\ HexDigest(content) \in DOMAIN dup.duplicates
             /\ Listed(dup.duplicates[HexDigest(content)])
                  = FilesHolding(dup.files, content)
        ELSE HexDigest(content) \notin DOMAIN dup.duplicates

-----------------------------------------------------------------------------
(* Properties of the action log *)

\* C26: after any sequence of logged actions the action log holds at most
\* 1000 entries, and they are the most recently logged ones in the order in
\* which they were logged.
C26_LogHoldsTheLatestThousand ==
  /\ Len(action_log) <= LogLimit
  /\ Len(action_log) = IF logged < LogLimit THEN logged ELSE LogLimit
  /\ \A i \in DOMAIN action_log :
       action_log[i] = logged - Len(action_log) + i

\* More than 1000 actions have been logged; the log is full and its oldest
\* entries are gone.
C26_Witness ==
  /\ logged = LogLimit + 2
  /\ Len(action_log) = LogLimit
  /\ action_log[1] = 3
  /\ action_log[LogLimit] = LogLimit + 2

====
